---- MODULE Spec2Model ----
(***************************************************************************)
(* Model of the debate orchestrator of juliuspor/Harmony:                  *)
(*   code/backend/app/services/debate.py          (run_debate and helpers) *)
(*   code/backend/app/services/debate_storage.py  (persistence)            *)
(*   code/backend/app/core/config.py              (thresholds)             *)
(*                                                                         *)
(* One debate, created by create_debate and executed by one run_debate     *)
(* task.  Every call to the persistence layer is one step, so the states   *)
(* a concurrent reader can observe are the states of the model.  Calls to  *)
(* the text-generation and embedding capabilities may return or raise.     *)
(* Spec assumes that persistence calls return; SpecStorageFault lets every *)
(* persistence write raise as well.                                        *)
(***************************************************************************)
EXTENDS Integers, Sequences, FiniteSets, TLC

VARIABLES
    api_key,            \* config.OPENAI_API_KEY is set
    clusters,           \* run input: sequence of cluster sizes (0 = empty cluster)
    max_rounds,         \* run input
    max_messages,       \* run input
    debate,             \* db.debates document: status, consensus_score, error_message
    db_agents,          \* db.agents documents of the debate
    db_messages,        \* db.messages documents of the debate, in insertion order
    db_interventions,   \* db.interventions documents of the debate, in insertion order
    db_consensus,       \* db.consensus document (None or <<score>>)
    db_summary,         \* db.summaries document (None or <<"summary">>)
    clock,              \* datetime.utcnow(), as a counter that ticks on every insert
    pc,                 \* position of run_debate
    cluster_idx,        \* loop variable of create_agents_from_clusters
    agents,             \* in-memory list of agents (each the persona of its cluster)
    round_number,       \* local of run_debate
    message_count,      \* local of run_debate
    current_agent_idx,  \* local of run_debate
    intervention,       \* result of the last check_for_intervention
    sims,               \* what the embedding comparisons of the last check say
    consensus_data,     \* local of run_debate: the computed consensus score
    exc,                \* str(e) of the exception being handled
    gen_calls,          \* number of text-generation calls made so far
    req_pc,             \* position of a get_consensus_endpoint request
    req_data,           \* local of the request: the consensus score it computed
    req_read,           \* number of messages in the transcript the request analysed
    embedding_model,    \* clustering._embedding_model: None or <<instance>>
    constructed,        \* number of SentenceTransformer(...) constructor runs
    gm_pc,              \* position of each caller of get_model
    gm_new,             \* each caller's newly constructed instance
    gm_result,          \* what get_model returned to each caller
    coll_debates,       \* db.debates with two debates: status by debate id
    coll_agents,        \* db.agents with two debates: documents tagged with debate_id
    coll_messages,      \* db.messages with two debates, in insertion order
    coll_interventions, \* db.interventions with two debates, in insertion order
    run,                \* the locals of each of the two run_debate executions
    solo,               \* per debate: the store and decision of the same run alone
    cl_entry,           \* the clustering function that was called
    cl_pc,              \* position of the clustering call
    cl_texts,           \* submissions; equal texts have equal embeddings
    cl_todo,            \* select_optimal_k: candidates still to evaluate
    cl_evaluated,       \* select_optimal_k: the k values a KMeans pass was run for
    cl_best,            \* select_optimal_k: <<best_k, best_score>>
    cl_result,          \* what cluster_submissions returned (None before)
    cl_embedded,        \* number of embed_submissions calls made
    cl_scores,          \* select_optimal_k: the silhouette score of each evaluated k
    an_pc,              \* position of the calculate_consensus_score call
    an_messages,        \* the transcript get_debate_messages gave the analyser
    an_result,          \* what calculate_consensus_score returned (None before)
    turns,              \* run_debate: iterations of the turn loop begun so far
    debate_history,     \* run_debate: debate_history
    conversation        \* run_debate: the messages of the last generation call

vars == <<api_key, clusters, max_rounds, max_messages, debate, db_agents,
          db_messages, db_interventions, db_consensus, db_summary, clock, pc,
          cluster_idx, agents, round_number, message_count, current_agent_idx,
          intervention, sims, consensus_data, exc, gen_calls, req_pc, req_data,
          req_read, embedding_model, constructed, gm_pc, gm_new, gm_result,
          coll_debates, coll_agents, coll_messages, coll_interventions, run, solo,
          cl_entry, cl_pc, cl_texts, cl_todo, cl_evaluated, cl_best, cl_result,
          cl_embedded, cl_scores, an_pc, an_messages, an_result, turns,
          debate_history, conversation>>

request == <<req_pc, req_data, req_read>>
\* the state that is not run_debate's
model_handle == <<embedding_model, constructed, gm_pc, gm_new, gm_result>>
two_debates == <<coll_debates, coll_agents, coll_messages, coll_interventions, run, solo>>
clustering == <<cl_entry, cl_pc, cl_texts, cl_todo, cl_evaluated, cl_best, cl_result,
                cl_embedded, cl_scores>>
analysis == <<an_pc, an_messages, an_result>>
outside == <<request, model_handle, two_debates, clustering, analysis>>
inputs == <<api_key, clusters, max_rounds, max_messages>>
store == <<debate, db_agents, db_messages, db_interventions, db_consensus,
           db_summary, clock>>
dialogue == <<turns, debate_history, conversation>>
locals == <<cluster_idx, agents, round_number, message_count,
            current_agent_idx, intervention, sims, consensus_data, dialogue>>
orchestrator == <<inputs, store, locals, pc, exc, gen_calls>>

(***************************************************************************)
(* Bounds of the model.                                                    *)
(***************************************************************************)
MaxClusters == 2
MaxRoundCeiling == 3
MaxMessageCeiling == 5
MaxCallers == 3
MaxAgentsEach == 1
RoundCeilingEach == 2
MessageCeilingEach == 3
MaxItems == 5
Oversize == 2
MaxAnalysed == 4

(***************************************************************************)
(* Program constants (config.py).                                          *)
(***************************************************************************)
MIN_MESSAGES_FOR_INTERVENTION == 3
MIN_ROUNDS_FOR_STALEMATE_CHECK == 5
INTERVENTION_STALEMATE_THRESHOLD == 2
REPETITION_WINDOW == 5
OFF_TOPIC_MIN_MESSAGES == 6
DETECT_ETHICAL_VIOLATIONS == TRUE
DEBATE_CONTEXT_MESSAGE_LIMIT == 3

None == <<>>
Some(x) == <<x>>

NoIntervention == "none"
InterventionTypes ==
    {"max_rounds", "max_messages", "repetition", "off_topic", "stalemate", "ethical"}

\* What a generated utterance can be, as far as the program looks at it:
\* text without or with a term of the insult denylist.
Contents == {"polite", "insult"}

\* The outcomes of the three embedding comparisons of check_for_intervention:
\* avg_similarity > REPETITION_SIMILARITY_THRESHOLD,
\* similarity < INTERVENTION_OFF_TOPIC_THRESHOLD,
\* avg_sim > STALEMATE_SIMILARITY_THRESHOLD.
Similarities == [repetition : BOOLEAN, off_topic : BOOLEAN, stalemate : BOOLEAN]
NoSims == [repetition |-> FALSE, off_topic |-> FALSE, stalemate |-> FALSE]

ExceptionTexts == {"", "capability failed"}
StorageExceptionTexts == {"storage write failed"}

Min(a, b) == IF a < b THEN a ELSE b
Max(a, b) == IF a > b THEN a ELSE b

(***************************************************************************)
(* debate_storage.py                                                       *)
(***************************************************************************)
NewDebate == [status |-> "pending", consensus_score |-> None, error_message |-> None]

UpdateDebateStatus(d, status, score, error) ==
    [d EXCEPT !.status = status,
              !.consensus_score = IF score # None THEN score ELSE @,
              !.error_message = IF error # None THEN error ELSE @]

AgentId(i) == "agent_" \o ToString(i)
Role(c) == "role_" \o ToString(c)

\* upsert on (debate_id, agent_id)
AddDebateAgent(docs, agent_id, agent_name, cluster_id) ==
    {a \in docs : a.agent_id # agent_id}
        \cup {[agent_id |-> agent_id, agent_name |-> agent_name, cluster_id |-> cluster_id]}

AddDebateMessage(docs, agent_id, agent_name, content, round, message_type, now) ==
    Append(docs, [agent_id |-> agent_id, agent_name |-> agent_name,
                  content |-> content, round_number |-> round,
                  message_type |-> message_type, timestamp |-> now])

AddIntervention(docs, type, reason, message, now) ==
    Append(docs, [intervention_type |-> type, reason |-> reason,
                  message |-> IF message # "" THEN message ELSE reason,
                  timestamp |-> now])

\* the sort with the round number descending
SortBeforeDescending(m, n) ==
    \/ m.round_number > n.round_number
    \/ m.round_number = n.round_number /\ m.timestamp < n.timestamp

\* sort([("round_number", ASCENDING), ("timestamp", ASCENDING)])
SortBefore(m, n) ==
    \/ m.round_number < n.round_number
    \/ m.round_number = n.round_number /\ m.timestamp < n.timestamp

RECURSIVE InsertSorted(_, _)
InsertSorted(m, s) ==
    IF s = <<>> THEN <<m>>
    ELSE IF SortBefore(m, Head(s)) THEN <<m>> \o s
    ELSE <<Head(s)>> \o InsertSorted(m, Tail(s))

RECURSIVE SortMessages(_)
SortMessages(s) ==
    IF s = <<>> THEN <<>> ELSE InsertSorted(Head(s), SortMessages(Tail(s)))

GetDebateMessages(docs) == SortMessages(docs)

(***************************************************************************)
(* debate.py: check_for_intervention                                       *)
(***************************************************************************)
InterventionReason(type) ==
    CASE type = "max_rounds" -> "Maximum rounds reached"
      [] type = "max_messages" -> "Maximum messages reached"
      [] type = "repetition" -> "Similar points are being repeated"
      [] type = "off_topic" -> "Discussion has drifted off-topic"
      [] type = "stalemate" -> "Debate appears stalled with repeated arguments"
      [] type = "ethical" -> "Detected inappropriate language"

InterventionMessage(type) ==
    CASE type = "max_rounds" -> "The debate has reached the maximum number of rounds."
      [] type = "max_messages" -> "The debate has reached the maximum number of messages."
      [] type = "repetition" -> "I notice similar points are being repeated."
      [] type = "off_topic" -> "The discussion seems to have drifted from the original topic."
      [] type = "stalemate" -> "It seems we're circling the same arguments."
      [] type = "ethical" -> "Let's maintain a respectful tone."

\* any(keyword in last_message for keyword in insult_keywords)
HasInsult(content) == content = "insult"

\* messages[-5:] if len(messages) >= 5 else messages
RecentMessages(messages) ==
    IF Len(messages) >= REPETITION_WINDOW
    THEN SubSeq(messages, Len(messages) - REPETITION_WINDOW + 1, Len(messages))
    ELSE messages

\* the rounds of the trailing window in which some message was stored
RoundsChecked(messages, round) ==
    LET rounds_to_check == Min(round, MIN_ROUNDS_FOR_STALEMATE_CHECK)
    IN {r \in Max(1, round - rounds_to_check + 1) .. round :
          \E i \in 1 .. Len(messages) : messages[i].round_number = r}

\* whether the call gets as far as an embedding comparison
ReachesEmbedding(messages, round, maxr, maxm) ==
    /\ round < maxr
    /\ Len(messages) < maxm
    /\ Len(messages) >= MIN_MESSAGES_FOR_INTERVENTION

\* check_for_intervention with the denylist scan moved before the embedding checks
CheckForInterventionEthicalFirst(messages, round, maxr, maxm, s) ==
    IF round >= maxr THEN "max_rounds"
    ELSE IF Len(messages) >= maxm THEN "max_messages"
    ELSE IF Len(messages) < MIN_MESSAGES_FOR_INTERVENTION THEN NoIntervention
    ELSE IF DETECT_ETHICAL_VIOLATIONS /\ HasInsult(messages[Len(messages)].content)
         THEN "ethical"
    ELSE IF Len(RecentMessages(messages)) >= MIN_MESSAGES_FOR_INTERVENTION /\ s.repetition
         THEN "repetition"
    ELSE IF Len(messages) >= OFF_TOPIC_MIN_MESSAGES /\ s.off_topic
         THEN "off_topic"
    ELSE IF /\ round >= INTERVENTION_STALEMATE_THRESHOLD
            /\ Cardinality(RoundsChecked(messages, round)) >= MIN_MESSAGES_FOR_INTERVENTION
            /\ s.stalemate
         THEN "stalemate"
    ELSE NoIntervention

CheckForIntervention(messages, round, maxr, maxm, s) ==
    IF round >= maxr THEN "max_rounds"
    ELSE IF Len(messages) >= maxm THEN "max_messages"
    ELSE IF Len(messages) < MIN_MESSAGES_FOR_INTERVENTION THEN NoIntervention
    ELSE IF Len(RecentMessages(messages)) >= MIN_MESSAGES_FOR_INTERVENTION /\ s.repetition
         THEN "repetition"
    ELSE IF Len(messages) >= OFF_TOPIC_MIN_MESSAGES /\ s.off_topic
         THEN "off_topic"
    ELSE IF /\ round >= INTERVENTION_STALEMATE_THRESHOLD
            /\ Cardinality(RoundsChecked(messages, round)) >= MIN_MESSAGES_FOR_INTERVENTION
            /\ s.stalemate
         THEN "stalemate"
    ELSE IF DETECT_ETHICAL_VIOLATIONS /\ HasInsult(messages[Len(messages)].content)
         THEN "ethical"
    ELSE NoIntervention

(***************************************************************************)
(* The state after create_debate(project_id, status="pending") and the     *)
(* scheduling of run_debate as a background task.                          *)
(***************************************************************************)
\* no get_consensus request has been received
NoRequest ==
    /\ req_pc = "idle"
    /\ req_data = None
    /\ req_read = 0

Callers == 1 .. MaxCallers

\* _embedding_model = None at import; no caller has entered get_model
ModelNotLoaded ==
    /\ embedding_model = None
    /\ constructed = 0
    /\ gm_pc = [c \in Callers |-> "call"]
    /\ gm_new = [c \in Callers |-> None]
    /\ gm_result = [c \in Callers |-> None]

DebateIds == {"d1", "d2"}

\* two debates created by create_debate, their runs scheduled
TwoDebatesCreated ==
    /\ coll_debates = [d \in DebateIds |-> "pending"]
    /\ coll_agents = {}
    /\ coll_messages = <<>>
    /\ coll_interventions = <<>>
    /\ run = [d \in DebateIds |->
                [pc |-> "start", agents |-> 0, round_number |-> 0, message_count |-> 0,
                 current_agent_idx |-> 0, intervention |-> NoIntervention]]
    /\ solo = [d \in DebateIds |->
                 [status |-> "pending", agents |-> {}, messages |-> <<>>,
                  interventions |-> <<>>, intervention |-> NoIntervention]]

\* no consensus analysis is in progress
NoAnalysis ==
    /\ an_pc = "idle"
    /\ an_messages = <<>>
    /\ an_result = None

\* no clustering call is in progress
NoClustering ==
    /\ cl_entry = "none"
    /\ cl_pc = "idle"
    /\ cl_texts = <<>>
    /\ cl_todo = <<>>
    /\ cl_evaluated = <<>>
    /\ cl_best = None
    /\ cl_result = None
    /\ cl_embedded = 0
    /\ cl_scores = <<>>

ClusterLists ==
    UNION {[1 .. n -> 0 .. 1] : n \in 0 .. MaxClusters}

\* the debate as create_debate leaves it, run_debate scheduled
DebateCreated ==
    /\ api_key \in BOOLEAN
    /\ clusters \in ClusterLists
    /\ max_rounds \in 1 .. MaxRoundCeiling
    /\ max_messages \in 1 .. MaxMessageCeiling
    /\ debate = NewDebate
    /\ db_agents = {}
    /\ db_messages = <<>>
    /\ db_interventions = <<>>
    /\ db_consensus = None
    /\ db_summary = None
    /\ clock = 0
    /\ pc = "start"
    /\ cluster_idx = 0
    /\ agents = <<>>
    /\ round_number = 0
    /\ message_count = 0
    /\ current_agent_idx = 0
    /\ intervention = NoIntervention
    /\ sims = NoSims
    /\ consensus_data = None
    /\ exc = None
    /\ gen_calls = 0
    /\ turns = 0
    /\ debate_history = <<>>
    /\ conversation = <<>>

Init ==
    /\ DebateCreated
    /\ NoRequest
    /\ ModelNotLoaded
    /\ TwoDebatesCreated
    /\ NoClustering
    /\ NoAnalysis

(***************************************************************************)
(* debate.py: run_debate, setup                                            *)
(***************************************************************************)
\* an exception reaches the handler of run_debate
Raise(text) ==
    /\ pc' = "except"
    /\ exc' = Some(text)

\* StartRun without its status write
StartRunKeepsPending ==
    /\ pc = "start"
    /\ pc' = "get_clusters"
    /\ UNCHANGED <<outside, inputs, store, locals, exc, gen_calls>>

\* update_debate_status(debate_id, "running")
StartRun ==
    /\ pc = "start"
    /\ debate' = UpdateDebateStatus(debate, "running", None, None)
    /\ pc' = "get_clusters"
    /\ UNCHANGED <<outside, inputs, db_agents, db_messages, db_interventions, db_consensus,
                   db_summary, clock, locals, exc, gen_calls>>

\* no clusters (or no submissions to cluster): ValueError
NoClusters ==
    /\ pc = "get_clusters"
    /\ Len(clusters) = 0
    /\ Raise("No clusters provided. Cannot create agents from empty clusters.")
    /\ UNCHANGED <<outside, inputs, store, locals, gen_calls>>

\* create_agents_from_clusters is entered; it raises when the API key is not set
EnterCreateAgents ==
    /\ pc = "get_clusters"
    /\ Len(clusters) > 0
    /\ IF api_key
       THEN pc' = "create_agents" /\ exc' = exc
       ELSE Raise("OPENAI_API_KEY not set.")
    /\ cluster_idx' = 0
    /\ agents' = <<>>
    /\ UNCHANGED <<outside, inputs, dialogue, store, round_number, message_count, current_agent_idx,
                   intervention, sims, consensus_data, gen_calls>>

\* loop body of create_agents_from_clusters: an empty cluster is skipped
SkipEmptyCluster ==
    /\ pc = "create_agents"
    /\ cluster_idx < Len(clusters)
    /\ clusters[cluster_idx + 1] = 0
    /\ cluster_idx' = cluster_idx + 1
    /\ UNCHANGED <<outside, inputs, dialogue, store, pc, agents, round_number, message_count,
                   current_agent_idx, intervention, sims, consensus_data, exc, gen_calls>>

\* PersonaFails without the except clause of the loop body
PersonaFailsAborts ==
    /\ pc = "create_agents"
    /\ cluster_idx < Len(clusters)
    /\ clusters[cluster_idx + 1] > 0
    /\ gen_calls' = gen_calls + 1
    /\ Raise("persona generation failed")
    /\ UNCHANGED <<outside, inputs, store, locals>>

\* loop body: generate_agent_persona raises, the cluster is skipped
PersonaFails ==
    /\ pc = "create_agents"
    /\ cluster_idx < Len(clusters)
    /\ clusters[cluster_idx + 1] > 0
    /\ gen_calls' = gen_calls + 1
    /\ cluster_idx' = cluster_idx + 1
    /\ UNCHANGED <<outside, inputs, dialogue, store, pc, agents, round_number, message_count,
                   current_agent_idx, intervention, sims, consensus_data, exc>>

\* CreateAgent registering the agent under its position in the agent list
CreateAgentListIndex ==
    /\ pc = "create_agents"
    /\ cluster_idx < Len(clusters)
    /\ clusters[cluster_idx + 1] > 0
    /\ gen_calls' = gen_calls + 1
    /\ agents' = Append(agents, [role |-> Role(cluster_idx)])
    /\ db_agents' = AddDebateAgent(db_agents, AgentId(Len(agents)), Role(cluster_idx),
                                   Len(agents))
    /\ cluster_idx' = cluster_idx + 1
    /\ UNCHANGED <<outside, inputs, dialogue, debate, db_messages, db_interventions, db_consensus,
                   db_summary, clock, pc, round_number, message_count,
                   current_agent_idx, intervention, sims, consensus_data, exc>>

\* loop body: the persona is generated, the agent appended and stored
CreateAgent ==
    /\ pc = "create_agents"
    /\ cluster_idx < Len(clusters)
    /\ clusters[cluster_idx + 1] > 0
    /\ gen_calls' = gen_calls + 1
    /\ agents' = Append(agents, [role |-> Role(cluster_idx)])
    /\ db_agents' = AddDebateAgent(db_agents, AgentId(cluster_idx), Role(cluster_idx),
                                   cluster_idx)
    /\ cluster_idx' = cluster_idx + 1
    /\ UNCHANGED <<outside, inputs, dialogue, debate, db_messages, db_interventions, db_consensus,
                   db_summary, clock, pc, round_number, message_count,
                   current_agent_idx, intervention, sims, consensus_data, exc>>

\* after the loop: if not agents: raise ValueError
NoAgentsCreated ==
    /\ pc = "create_agents"
    /\ cluster_idx = Len(clusters)
    /\ agents = <<>>
    /\ Raise("No agents created. Check logs for details.")
    /\ UNCHANGED <<outside, inputs, store, locals, gen_calls>>

\* add_debate_agent(debate_id, "orchestrator", "Moderator", -1, ...)
AddOrchestrator ==
    /\ pc = "create_agents"
    /\ cluster_idx = Len(clusters)
    /\ agents # <<>>
    /\ db_agents' = AddDebateAgent(db_agents, "orchestrator", "Moderator", -1)
    /\ pc' = "opening"
    /\ UNCHANGED <<outside, inputs, debate, db_messages, db_interventions, db_consensus,
                   db_summary, clock, locals, exc, gen_calls>>

\* the opening message of the Moderator
\* an entry of debate_history: the role and the content, which is the text with
\* the speaker's name in front (no name on the opening)
HistoryEntry(role, name, content) == [role |-> role, content |-> <<name, content>>]

Opening ==
    /\ pc = "opening"
    /\ round_number' = 1
    /\ current_agent_idx' = 0
    /\ db_messages' = AddDebateMessage(db_messages, "orchestrator", "Moderator",
                                       "opening", 1, "orchestrator_message", clock)
    /\ clock' = clock + 1
    /\ debate_history' = Append(debate_history, HistoryEntry("assistant", None, "opening"))
    /\ message_count' = 1
    /\ pc' = "loop"
    /\ UNCHANGED <<outside, inputs, debate, db_agents, db_interventions, db_consensus,
                   db_summary, cluster_idx, agents, intervention, sims,
                   consensus_data, exc, gen_calls, turns, conversation>>

(***************************************************************************)
(* debate.py: run_debate, turn loop                                        *)
(***************************************************************************)
\* while round_number <= max_rounds and message_count < max_messages
LoopCondition == round_number <= max_rounds /\ message_count < max_messages

\* current_agent_idx = (current_agent_idx + 1) % len(agents)
NextAgentIdx == (current_agent_idx + 1) % Len(agents)

\* if current_agent_idx == 0: round_number += 1
\* a new round with every turn
NextRoundEveryTurn == round_number + 1

NextRound == IF NextAgentIdx = 0 THEN round_number + 1 ELSE round_number

\* debate_history[-n:]
LastEntries(history, n) ==
    IF n = 0 THEN history
    ELSE SubSeq(history, Max(1, Len(history) - n + 1), Len(history))

\* the conversation without the rolling window limit
ConversationWholeHistory ==
    <<[role |-> "system", content |-> <<"persona", agents[current_agent_idx + 1].role>>]>>
        \o debate_history

\* conversation = [system message of the agent] + debate_history[-limit:]
Conversation ==
    <<[role |-> "system", content |-> <<"persona", agents[current_agent_idx + 1].role>>]>>
        \o LastEntries(debate_history, DEBATE_CONTEXT_MESSAGE_LIMIT)

\* the skipped turn without its advance to the next agent
AgentTurnEmptyStays ==
    /\ pc = "loop"
    /\ LoopCondition
    /\ turns' = turns + 1
    /\ conversation' = Conversation
    /\ gen_calls' = gen_calls + 1
    /\ UNCHANGED <<outside, inputs, store, pc, cluster_idx, agents, message_count,
                   intervention, sims, consensus_data, exc, debate_history,
                   current_agent_idx, round_number>>

\* the generation returns an empty utterance: the turn is skipped
AgentTurnEmpty ==
    /\ pc = "loop"
    /\ LoopCondition
    /\ turns' = turns + 1
    /\ conversation' = Conversation
    /\ gen_calls' = gen_calls + 1
    /\ current_agent_idx' = NextAgentIdx
    /\ round_number' = NextRound
    /\ UNCHANGED <<outside, inputs, store, pc, cluster_idx, agents, message_count,
                   intervention, sims, consensus_data, exc, debate_history>>

\* the generation returns an utterance: it is stored as an agent_message
AgentTurnSpeaks ==
    /\ pc = "loop"
    /\ LoopCondition
    /\ turns' = turns + 1
    /\ conversation' = Conversation
    /\ gen_calls' = gen_calls + 1
    /\ \E content \in Contents :
         /\ db_messages' = AddDebateMessage(db_messages, AgentId(current_agent_idx),
                                            agents[current_agent_idx + 1].role, content,
                                            round_number, "agent_message", clock)
         /\ debate_history' =
              Append(debate_history,
                     HistoryEntry("user", agents[current_agent_idx + 1].role, content))
    /\ clock' = clock + 1
    /\ message_count' = message_count + 1
    /\ pc' = "check"
    /\ UNCHANGED <<outside, inputs, debate, db_agents, db_interventions, db_consensus,
                   db_summary, cluster_idx, agents, round_number, current_agent_idx,
                   intervention, sims, consensus_data, exc>>

\* client.chat.completions.create raises
GenerationRaises ==
    /\ pc = "loop"
    /\ LoopCondition
    /\ gen_calls' = gen_calls + 1
    /\ \E text \in ExceptionTexts : Raise(text)
    /\ UNCHANGED <<outside, inputs, store, locals>>

\* the while condition is false
LoopExit ==
    /\ pc = "loop"
    /\ ~LoopCondition
    /\ pc' = "closing"
    /\ UNCHANGED <<outside, inputs, store, locals, exc, gen_calls>>

\* The comparisons a call of check_for_intervention makes: each is made only
\* when the checks before it did not return (a comparison not made has no value,
\* recorded as FALSE).
ComparisonsMade(messages, round, maxr, maxm, s) ==
    LET reached == ReachesEmbedding(messages, round, maxr, maxm)
        off_made == reached /\ ~s.repetition /\ Len(messages) >= OFF_TOPIC_MIN_MESSAGES
        stale_made ==
            /\ reached /\ ~s.repetition /\ ~s.off_topic
            /\ round >= INTERVENTION_STALEMATE_THRESHOLD
            /\ Cardinality(RoundsChecked(messages, round)) >= MIN_MESSAGES_FOR_INTERVENTION
    IN /\ s.repetition => reached
       /\ s.off_topic => off_made
       /\ s.stalemate => stale_made

\* stored_messages = get_debate_messages(...); check_for_intervention(...)
CheckIntervention ==
    /\ pc = "check"
    /\ \E s \in Similarities :
         /\ ComparisonsMade(GetDebateMessages(db_messages), round_number, max_rounds,
                            max_messages, s)
         /\ sims' = s
         /\ intervention' = CheckForIntervention(GetDebateMessages(db_messages),
                                                 round_number, max_rounds, max_messages, s)
    /\ pc' = "decide"
    /\ UNCHANGED <<outside, inputs, dialogue, store, cluster_idx, agents, round_number, message_count,
                   current_agent_idx, consensus_data, exc, gen_calls>>

\* an embedding call of check_for_intervention raises
CheckInterventionRaises ==
    /\ pc = "check"
    /\ ReachesEmbedding(GetDebateMessages(db_messages), round_number, max_rounds,
                        max_messages)
    /\ \E text \in ExceptionTexts : Raise(text)
    /\ UNCHANGED <<outside, inputs, store, locals, gen_calls>>

\* if intervention: (not taken); move to next agent
NoInterventionNeeded ==
    /\ pc = "decide"
    /\ intervention = NoIntervention
    /\ current_agent_idx' = NextAgentIdx
    /\ round_number' = NextRound
    /\ sims' = NoSims
    /\ pc' = "loop"
    /\ UNCHANGED <<outside, inputs, dialogue, store, cluster_idx, agents, message_count, intervention,
                   consensus_data, exc, gen_calls>>

\* add_intervention(debate_id, type, reason, intervention_msg)
RecordIntervention ==
    /\ pc = "decide"
    /\ intervention # NoIntervention
    /\ db_interventions' = AddIntervention(db_interventions, intervention,
                                           InterventionReason(intervention),
                                           InterventionMessage(intervention), clock)
    /\ clock' = clock + 1
    /\ sims' = NoSims
    /\ pc' = "intervention_message"
    /\ UNCHANGED <<outside, inputs, dialogue, debate, db_agents, db_messages, db_consensus, db_summary,
                   cluster_idx, agents, round_number, message_count, current_agent_idx,
                   intervention, consensus_data, exc, gen_calls>>

\* max_rounds/max_messages end the loop
EndsDebate(type) == type \in {"max_rounds", "max_messages"}

\* add_debate_message(..., intervention_msg, ...); break or move to next agent
InterventionMessageStep ==
    /\ pc = "intervention_message"
    /\ db_messages' = AddDebateMessage(db_messages, "orchestrator", "Moderator",
                                       InterventionMessage(intervention), round_number,
                                       "orchestrator_message", clock)
    /\ debate_history' =
         Append(debate_history,
                HistoryEntry("assistant", "Moderator", InterventionMessage(intervention)))
    /\ clock' = clock + 1
    /\ message_count' = message_count + 1
    /\ IF EndsDebate(intervention)
       THEN /\ pc' = "closing"
            /\ UNCHANGED <<current_agent_idx, round_number>>
       ELSE /\ pc' = "loop"
            /\ current_agent_idx' = NextAgentIdx
            /\ round_number' = NextRound
    /\ UNCHANGED <<outside, inputs, debate, db_agents, db_interventions, db_consensus,
                   db_summary, cluster_idx, agents, intervention, sims,
                   consensus_data, exc, gen_calls, turns, conversation>>

(***************************************************************************)
(* debate.py: run_debate, completion and exception handler                 *)
(***************************************************************************)
\* the closing step with the status written before the closing message
ClosingAfterStatus ==
    /\ pc = "closing"
    /\ IF debate.status = "running"
       THEN /\ debate' = UpdateDebateStatus(debate, "completed", None, None)
            /\ UNCHANGED <<db_messages, clock, pc>>
       ELSE /\ db_messages' = AddDebateMessage(db_messages, "orchestrator", "Moderator",
                                               "closing", round_number,
                                               "orchestrator_message", clock)
            /\ clock' = clock + 1
            /\ pc' = "consensus"
            /\ debate' = debate
    /\ UNCHANGED <<outside, inputs, db_agents, db_interventions, db_consensus, db_summary,
                   locals, exc, gen_calls>>

\* the closing message of the Moderator
Closing ==
    /\ pc = "closing"
    /\ db_messages' = AddDebateMessage(db_messages, "orchestrator", "Moderator",
                                       "closing", round_number, "orchestrator_message",
                                       clock)
    /\ clock' = clock + 1
    /\ pc' = "consensus"
    /\ UNCHANGED <<outside, inputs, debate, db_agents, db_interventions, db_consensus,
                   db_summary, locals, exc, gen_calls>>

\* the composite scores the analyzer can report
ConsensusScores == {0, 100}

\* the scores already computed over the transcript of n messages (the
\* transcripts of one debate are prefixes of one another)
KnownScores(n) ==
    {req_data[1] : x \in {y \in {1} : req_data # None /\ req_read = n}}
        \cup {consensus_data[1] :
                 x \in {y \in {1} : consensus_data # None /\ Len(db_messages) = n}}

\* calculate_consensus_score is a function of the stored transcript: 0.0 when
\* there are no messages, and the same score for the same transcript
CalculateConsensusScore(n) ==
    IF n = 0 THEN {0}
    ELSE IF KnownScores(n) # {} THEN KnownScores(n)
    ELSE ConsensusScores

\* ConsensusStep writing the score to the Debate record along with the analysis
ConsensusStepWritesScore ==
    /\ pc = "consensus"
    /\ \E score \in CalculateConsensusScore(Len(db_messages)) :
         /\ consensus_data' = Some(score)
         /\ db_consensus' = Some(score)
         /\ debate' = UpdateDebateStatus(debate, debate.status, Some(score), None)
    /\ pc' = "summary"
    /\ UNCHANGED <<outside, inputs, dialogue, db_agents, db_messages, db_interventions,
                   db_summary, clock, cluster_idx, agents, round_number, message_count,
                   current_agent_idx, intervention, sims, exc, gen_calls>>

\* consensus_data = calculate_consensus_score(...); store_consensus_analysis(...)
ConsensusStep ==
    /\ pc = "consensus"
    /\ \E score \in CalculateConsensusScore(Len(db_messages)) :
         /\ consensus_data' = Some(score)
         /\ db_consensus' = Some(score)
    /\ pc' = "summary"
    /\ UNCHANGED <<outside, inputs, dialogue, debate, db_agents, db_messages, db_interventions,
                   db_summary, clock, cluster_idx, agents, round_number, message_count,
                   current_agent_idx, intervention, sims, exc, gen_calls>>

\* an embedding call of calculate_consensus_score raises
ConsensusRaises ==
    /\ pc = "consensus"
    /\ \E text \in ExceptionTexts : Raise(text)
    /\ UNCHANGED <<outside, inputs, store, locals, gen_calls>>

\* summary = generate_debate_summary(...); store_debate_summary(...)
SummaryStep ==
    /\ pc = "summary"
    /\ gen_calls' = gen_calls + 1
    /\ db_summary' = Some("summary")
    /\ pc' = "complete"
    /\ UNCHANGED <<outside, inputs, debate, db_agents, db_messages, db_interventions,
                   db_consensus, clock, locals, exc>>

\* the generation call of generate_debate_summary raises
SummaryRaises ==
    /\ pc = "summary"
    /\ gen_calls' = gen_calls + 1
    /\ \E text \in ExceptionTexts : Raise(text)
    /\ UNCHANGED <<outside, inputs, store, locals>>

\* Complete without the score argument of its status write
CompleteWithoutScore ==
    /\ pc = "complete"
    /\ debate' = UpdateDebateStatus(debate, "completed", None, None)
    /\ pc' = "returned"
    /\ UNCHANGED <<outside, inputs, db_agents, db_messages, db_interventions, db_consensus,
                   db_summary, clock, locals, exc, gen_calls>>

\* update_debate_status(debate_id, "completed", consensus_data["consensus_score"])
Complete ==
    /\ pc = "complete"
    /\ debate' = UpdateDebateStatus(debate, "completed", consensus_data, None)
    /\ pc' = "returned"
    /\ UNCHANGED <<outside, inputs, db_agents, db_messages, db_interventions, db_consensus,
                   db_summary, clock, locals, exc, gen_calls>>

\* the error message without its prefix
ErrorMessageBare(text) == text

\* error_message = f"Debate execution failed: {str(e)}"
ErrorMessage(text) == "Debate execution failed: " \o text

\* except Exception: update_debate_status(debate_id, "cancelled", error_message=...); raise
HandleException ==
    /\ pc = "except"
    /\ debate' = UpdateDebateStatus(debate, "cancelled", None, Some(ErrorMessage(exc[1])))
    /\ pc' = "raised"
    /\ UNCHANGED <<outside, inputs, db_agents, db_messages, db_interventions, db_consensus,
                   db_summary, clock, locals, exc, gen_calls>>

Next ==
    \/ StartRun
    \/ NoClusters
    \/ EnterCreateAgents
    \/ SkipEmptyCluster
    \/ PersonaFails
    \/ CreateAgent
    \/ NoAgentsCreated
    \/ AddOrchestrator
    \/ Opening
    \/ AgentTurnEmpty
    \/ AgentTurnSpeaks
    \/ GenerationRaises
    \/ LoopExit
    \/ CheckIntervention
    \/ CheckInterventionRaises
    \/ NoInterventionNeeded
    \/ RecordIntervention
    \/ InterventionMessageStep
    \/ Closing
    \/ ConsensusStep
    \/ ConsensusRaises
    \/ SummaryStep
    \/ SummaryRaises
    \/ Complete
    \/ HandleException

Spec == Init /\ [][Next]_vars

\* run_debate is a thread that keeps running: a step that can be taken is taken
SpecLive == Spec /\ WF_vars(Next)

(***************************************************************************)
(* routes.py: get_consensus_endpoint, a request served while run_debate    *)
(* (a background task in the thread pool) is at any of its steps.          *)
(***************************************************************************)
\* get_debate finds the debate; consensus_analysis = get_consensus_analysis(...)
GetConsensusRead ==
    /\ req_pc = "idle"
    /\ req_pc' = IF db_consensus = None THEN "compute" ELSE "summary"
    /\ UNCHANGED <<model_handle, two_debates, clustering, analysis, orchestrator,
                   req_data, req_read>>

\* if not consensus_analysis: consensus_data = calculate_consensus_score(debate_id)
GetConsensusCompute ==
    /\ req_pc = "compute"
    /\ req_read' = Len(db_messages)
    /\ \E score \in CalculateConsensusScore(Len(db_messages)) : req_data' = Some(score)
    /\ req_pc' = "store"
    /\ UNCHANGED <<model_handle, two_debates, clustering, analysis, orchestrator>>

\* store_consensus_analysis(debate_id, consensus_data[...]): upsert by debate id
GetConsensusStore ==
    /\ req_pc = "store"
    /\ db_consensus' = req_data
    /\ req_pc' = "summary"
    /\ UNCHANGED <<model_handle, two_debates, clustering, analysis, inputs, debate,
                   db_agents, db_messages,
                   db_interventions, db_summary, clock, locals, pc, exc, gen_calls,
                   req_data, req_read>>

\* summary = get_debate_summary(...); generated and stored when there is none;
\* the response is built
GetConsensusSummary ==
    /\ req_pc = "summary"
    /\ db_summary' = IF db_summary = None THEN Some("summary") ELSE db_summary
    /\ req_pc' = "done"
    /\ UNCHANGED <<model_handle, two_debates, clustering, analysis, inputs, debate,
                   db_agents, db_messages,
                   db_interventions, db_consensus, clock, locals, pc, exc, gen_calls,
                   req_data, req_read>>

\* an embedding or generation call of the request raises: HTTP 500
GetConsensusFails ==
    /\ req_pc \in {"compute", "summary"}
    /\ req_pc = "compute" => Len(db_messages) > 0
    /\ req_pc = "summary" => db_summary = None /\ Len(db_messages) > 0
    /\ req_pc' = "done"
    /\ UNCHANGED <<model_handle, two_debates, clustering, analysis, orchestrator,
                   req_data, req_read>>

GetConsensus ==
    \/ GetConsensusRead
    \/ GetConsensusCompute
    \/ GetConsensusStore
    \/ GetConsensusSummary
    \/ GetConsensusFails

NextConsensus == Next \/ GetConsensus

SpecConsensus == Init /\ [][NextConsensus]_vars

(***************************************************************************)
(* clustering.py: get_model, called without a lock from the threads that   *)
(* run debates and serve requests.                                         *)
(***************************************************************************)
\* if _embedding_model is None
GetModelTest(c) ==
    /\ gm_pc[c] = "call"
    /\ gm_pc' = [gm_pc EXCEPT ![c] = IF embedding_model = None THEN "construct"
                                     ELSE "return"]
    /\ UNCHANGED <<embedding_model, constructed, gm_new, gm_result>>
    /\ UNCHANGED <<request, two_debates, clustering, analysis, orchestrator>>

\* SentenceTransformer(config.EMBEDDING_MODEL) builds a new instance
GetModelConstruct(c) ==
    /\ gm_pc[c] = "construct"
    /\ constructed' = constructed + 1
    /\ gm_new' = [gm_new EXCEPT ![c] = Some(constructed + 1)]
    /\ gm_pc' = [gm_pc EXCEPT ![c] = "assign"]
    /\ UNCHANGED <<embedding_model, gm_result>>
    /\ UNCHANGED <<request, two_debates, clustering, analysis, orchestrator>>

\* _embedding_model = <the new instance>
GetModelAssign(c) ==
    /\ gm_pc[c] = "assign"
    /\ embedding_model' = gm_new[c]
    /\ gm_pc' = [gm_pc EXCEPT ![c] = "return"]
    /\ UNCHANGED <<constructed, gm_new, gm_result>>
    /\ UNCHANGED <<request, two_debates, clustering, analysis, orchestrator>>

\* return _embedding_model
GetModelReturn(c) ==
    /\ gm_pc[c] = "return"
    /\ gm_result' = [gm_result EXCEPT ![c] = embedding_model]
    /\ gm_pc' = [gm_pc EXCEPT ![c] = "returned"]
    /\ UNCHANGED <<embedding_model, constructed, gm_new>>
    /\ UNCHANGED <<request, two_debates, clustering, analysis, orchestrator>>

GetModel ==
    \/ \E c \in Callers : GetModelTest(c)
    \/ \E c \in Callers : GetModelConstruct(c)
    \/ \E c \in Callers : GetModelAssign(c)
    \/ \E c \in Callers : GetModelReturn(c)

\* one process, no debate started yet
InitModel ==
    /\ Init
    /\ api_key
    /\ clusters = <<>>
    /\ max_rounds = 1
    /\ max_messages = 1

SpecModel == InitModel /\ [][GetModel]_vars

(***************************************************************************)
(* Persistence writes that raise.  Spec assumes the persistence layer      *)
(* answers every call; SpecStorageFault adds these steps.                  *)
(***************************************************************************)
\* the write of the current step raises and the exception reaches the handler:
\* update_debate_status("running"), add_debate_agent("orchestrator"), the opening
\* message, add_intervention, the intervention message, the closing message,
\* update_debate_status("completed")
StorageWriteRaises ==
    /\ \/ pc \in {"start", "opening", "intervention_message", "closing", "complete"}
       \/ pc = "decide" /\ intervention # NoIntervention
       \/ pc = "create_agents" /\ cluster_idx = Len(clusters) /\ agents # <<>>
    /\ \E text \in StorageExceptionTexts : Raise(text)
    /\ UNCHANGED <<outside, inputs, store, locals, gen_calls>>

\* the utterance is generated and add_debate_message raises
AgentMessageWriteRaises ==
    /\ pc = "loop"
    /\ LoopCondition
    /\ gen_calls' = gen_calls + 1
    /\ \E text \in StorageExceptionTexts : Raise(text)
    /\ UNCHANGED <<outside, inputs, store, locals>>

\* store_consensus_analysis or store_debate_summary raises
AnalysisWriteRaises ==
    /\ pc \in {"consensus", "summary"}
    /\ gen_calls' = IF pc = "summary" THEN gen_calls + 1 ELSE gen_calls
    /\ \E text \in StorageExceptionTexts : Raise(text)
    /\ UNCHANGED <<outside, inputs, store, locals>>

\* create_agents_from_clusters: the agent is appended, add_debate_agent raises,
\* the except clause of the loop body logs it and continues
AddDebateAgentRaises ==
    /\ pc = "create_agents"
    /\ cluster_idx < Len(clusters)
    /\ clusters[cluster_idx + 1] > 0
    /\ gen_calls' = gen_calls + 1
    /\ agents' = Append(agents, [role |-> Role(cluster_idx)])
    /\ cluster_idx' = cluster_idx + 1
    /\ UNCHANGED <<outside, inputs, dialogue, store, pc, round_number, message_count,
                   current_agent_idx, intervention, sims, consensus_data, exc>>

\* the handler's update_debate_status("cancelled") raises: logged, then raise
HandleExceptionWriteRaises ==
    /\ pc = "except"
    /\ pc' = "raised"
    /\ UNCHANGED <<outside, inputs, store, locals, exc, gen_calls>>

StorageFault ==
    \/ StorageWriteRaises
    \/ AgentMessageWriteRaises
    \/ AnalysisWriteRaises
    \/ AddDebateAgentRaises
    \/ HandleExceptionWriteRaises

NextStorageFault == Next \/ StorageFault

SpecStorageFault == Init /\ [][NextStorageFault]_vars

(***************************************************************************)
(* One turn of the loop from the point where the utterance has been        *)
(* stored, over drawn transcripts: the opening message followed by agent   *)
(* messages with non-decreasing round numbers, the turn's utterance last.  *)
(* SpecCheck applies check_for_intervention and the rest of the loop body  *)
(* to each of them.                                                        *)
(***************************************************************************)
MaxTranscript == 7
MaxCheckRounds == 4

RoundSequences(n) ==
    {f \in [1 .. n -> 1 .. MaxCheckRounds] :
        /\ f[1] = 1
        /\ \A i \in 1 .. n - 1 : f[i] <= f[i + 1]}

DrawnTranscript(rounds, last_content) ==
    [i \in 1 .. Len(rounds) |->
        IF i = 1
        THEN [agent_id |-> "orchestrator", agent_name |-> "Moderator",
              content |-> "opening", round_number |-> 1,
              message_type |-> "orchestrator_message", timestamp |-> 0]
        ELSE [agent_id |-> AgentId(i % 2), agent_name |-> Role(i % 2),
              content |-> IF i = Len(rounds) THEN last_content ELSE "polite",
              round_number |-> rounds[i],
              message_type |-> "agent_message", timestamp |-> i - 1]]

InitCheck ==
    /\ api_key = TRUE
    /\ clusters = <<1, 1>>
    /\ \E n \in 2 .. MaxTranscript :
         \E rounds \in RoundSequences(n) :
           \E last_content \in Contents :
             /\ db_messages = DrawnTranscript(rounds, last_content)
             /\ round_number = rounds[n]
             /\ message_count = n
             /\ clock = n
             /\ current_agent_idx = n % 2
    /\ max_rounds \in round_number .. MaxCheckRounds
    /\ max_messages \in message_count .. MaxTranscript + 1
    /\ debate = UpdateDebateStatus(NewDebate, "running", None, None)
    /\ db_agents =
         AddDebateAgent(AddDebateAgent(AddDebateAgent({}, AgentId(0), Role(0), 0),
                                       AgentId(1), Role(1), 1),
                        "orchestrator", "Moderator", -1)
    /\ db_interventions = <<>>
    /\ db_consensus = None
    /\ db_summary = None
    /\ pc = "check"
    /\ cluster_idx = 2
    /\ agents = <<[role |-> Role(0)], [role |-> Role(1)]>>
    /\ intervention = NoIntervention
    /\ sims = NoSims
    /\ consensus_data = None
    /\ exc = None
    /\ gen_calls = Len(agents) + Len(db_messages) - 1
    /\ turns = Len(db_messages) - 1
    /\ debate_history =
         [i \in 1 .. Len(db_messages) |->
             IF i = 1 THEN HistoryEntry("assistant", None, "opening")
             ELSE HistoryEntry("user", db_messages[i].agent_name, db_messages[i].content)]
    /\ conversation =
         <<[role |-> "system", content |-> <<"persona", agents[current_agent_idx + 1].role>>]>>
             \o LastEntries(SubSeq(debate_history, 1, Len(debate_history) - 1),
                            DEBATE_CONTEXT_MESSAGE_LIMIT)
    /\ NoRequest
    /\ ModelNotLoaded
    /\ TwoDebatesCreated
    /\ NoClustering
    /\ NoAnalysis

NextCheck ==
    \/ CheckIntervention
    \/ NoInterventionNeeded
    \/ RecordIntervention
    \/ InterventionMessageStep

SpecCheck == InitCheck /\ [][NextCheck]_vars

(***************************************************************************)
(* Two run_debate executions with distinct debate ids on one database.     *)
(* Every collection holds the documents of both debates, tagged with their *)
(* debate_id; each storage call is one step.  solo[d] is the store debate  *)
(* d would have if it ran alone with the same generation and embedding     *)
(* outcomes.                                                               *)
(***************************************************************************)
\* insert of a document under a debate id
InsertTagged(coll, d, doc) == Append(coll, [debate_id |-> d, doc |-> doc])

\* find() without the debate_id of the query
FindUnfiltered(coll, d) == [i \in 1 .. Len(coll) |-> coll[i].doc]

\* db.<collection>.find({"debate_id": debate_id})
FindByDebateId(coll, d) ==
    LET sel == SelectSeq(coll, LAMBDA x : x.debate_id = d)
    IN [i \in 1 .. Len(sel) |-> sel[i].doc]

\* get_debate_messages(debate_id)["messages"]
StoredMessages(d) == GetDebateMessages(FindByDebateId(coll_messages, d))

\* the message document add_debate_message inserts at time now
MessageDoc(agent_id, agent_name, content, round, message_type, now) ==
    AddDebateMessage(<<>>, agent_id, agent_name, content, round, message_type, now)[1]

\* add_debate_message for debate d, in the shared store and in solo[d]
StoreMessage(d, agent_id, agent_name, content, round, message_type) ==
    /\ coll_messages' =
         InsertTagged(coll_messages, d,
                      MessageDoc(agent_id, agent_name, content, round, message_type,
                                 Len(coll_messages)))
    /\ solo' = [solo EXCEPT ![d].messages =
                  AddDebateMessage(@, agent_id, agent_name, content, round,
                                   message_type, Len(@))]

LoopConditionOf(d) ==
    /\ run[d].round_number <= RoundCeilingEach
    /\ run[d].message_count < MessageCeilingEach

NextAgentIdxOf(d) == (run[d].current_agent_idx + 1) % run[d].agents

NextRoundOf(d) ==
    IF NextAgentIdxOf(d) = 0 THEN run[d].round_number + 1 ELSE run[d].round_number

\* update_debate_status(debate_id, "running"); the agents and the Moderator are
\* registered under the debate id
SetupOf(d) ==
    /\ run[d].pc = "start"
    /\ \E n \in 1 .. MaxAgentsEach :
         LET registered ==
                 {[agent_id |-> AgentId(c), agent_name |-> Role(c), cluster_id |-> c] :
                    c \in 0 .. n - 1}
                 \cup {[agent_id |-> "orchestrator", agent_name |-> "Moderator",
                        cluster_id |-> -1]}
         IN /\ coll_agents' =
                 coll_agents \cup {[debate_id |-> d, doc |-> a] : a \in registered}
            /\ solo' = [solo EXCEPT ![d].agents = registered, ![d].status = "running"]
            /\ run' = [run EXCEPT ![d].agents = n, ![d].pc = "opening"]
    /\ coll_debates' = [coll_debates EXCEPT ![d] = "running"]
    /\ UNCHANGED <<coll_messages, coll_interventions>>

\* the opening message of the Moderator
OpeningOf(d) ==
    /\ run[d].pc = "opening"
    /\ StoreMessage(d, "orchestrator", "Moderator", "opening", 1, "orchestrator_message")
    /\ run' = [run EXCEPT ![d].round_number = 1, ![d].message_count = 1,
                          ![d].current_agent_idx = 0, ![d].pc = "loop"]
    /\ UNCHANGED <<coll_debates, coll_agents, coll_interventions>>

\* the generation returns an empty utterance
AgentTurnEmptyOf(d) ==
    /\ run[d].pc = "loop"
    /\ LoopConditionOf(d)
    /\ run' = [run EXCEPT ![d].current_agent_idx = NextAgentIdxOf(d),
                          ![d].round_number = NextRoundOf(d)]
    /\ UNCHANGED <<coll_debates, coll_agents, coll_messages, coll_interventions, solo>>

\* the generation returns an utterance, stored under the debate id
AgentTurnSpeaksOf(d) ==
    /\ run[d].pc = "loop"
    /\ LoopConditionOf(d)
    /\ \E content \in Contents :
         StoreMessage(d, AgentId(run[d].current_agent_idx),
                      Role(run[d].current_agent_idx), content, run[d].round_number,
                      "agent_message")
    /\ run' = [run EXCEPT ![d].message_count = @ + 1, ![d].pc = "check"]
    /\ UNCHANGED <<coll_debates, coll_agents, coll_interventions>>

\* stored_messages = get_debate_messages(debate_id); check_for_intervention(...)
CheckInterventionOf(d) ==
    /\ run[d].pc = "check"
    /\ \E s \in Similarities :
         /\ ComparisonsMade(StoredMessages(d), run[d].round_number, RoundCeilingEach,
                            MessageCeilingEach, s)
         /\ run' = [run EXCEPT
                      ![d].intervention =
                          CheckForIntervention(StoredMessages(d), run[d].round_number,
                                               RoundCeilingEach, MessageCeilingEach, s),
                      ![d].pc = "decide"]
         /\ solo' = [solo EXCEPT
                       ![d].intervention =
                           CheckForIntervention(GetDebateMessages(solo[d].messages),
                                                run[d].round_number, RoundCeilingEach,
                                                MessageCeilingEach, s)]
    /\ UNCHANGED <<coll_debates, coll_agents, coll_messages, coll_interventions>>

\* no intervention: move to the next agent
NoInterventionNeededOf(d) ==
    /\ run[d].pc = "decide"
    /\ run[d].intervention = NoIntervention
    /\ run' = [run EXCEPT ![d].current_agent_idx = NextAgentIdxOf(d),
                          ![d].round_number = NextRoundOf(d), ![d].pc = "loop"]
    /\ UNCHANGED <<coll_debates, coll_agents, coll_messages, coll_interventions, solo>>

\* add_intervention(debate_id, ...)
RecordInterventionOf(d) ==
    /\ run[d].pc = "decide"
    /\ run[d].intervention # NoIntervention
    /\ LET t == run[d].intervention
       IN /\ coll_interventions' =
               InsertTagged(coll_interventions, d,
                            AddIntervention(<<>>, t, InterventionReason(t),
                                            InterventionMessage(t),
                                            Len(coll_interventions))[1])
          /\ solo' = [solo EXCEPT ![d].interventions =
                        AddIntervention(@, t, InterventionReason(t),
                                        InterventionMessage(t), Len(@))]
    /\ run' = [run EXCEPT ![d].pc = "intervention_message"]
    /\ UNCHANGED <<coll_debates, coll_agents, coll_messages>>

\* the intervention message; break or move to the next agent
InterventionMessageOf(d) ==
    /\ run[d].pc = "intervention_message"
    /\ StoreMessage(d, "orchestrator", "Moderator",
                    InterventionMessage(run[d].intervention), run[d].round_number,
                    "orchestrator_message")
    /\ run' = [run EXCEPT
                 ![d].message_count = @ + 1,
                 ![d].pc = IF EndsDebate(run[d].intervention) THEN "closing" ELSE "loop",
                 ![d].current_agent_idx =
                     IF EndsDebate(run[d].intervention) THEN @ ELSE NextAgentIdxOf(d),
                 ![d].round_number =
                     IF EndsDebate(run[d].intervention) THEN @ ELSE NextRoundOf(d)]
    /\ UNCHANGED <<coll_debates, coll_agents, coll_interventions>>

\* the while condition is false
LoopExitOf(d) ==
    /\ run[d].pc = "loop"
    /\ ~LoopConditionOf(d)
    /\ run' = [run EXCEPT ![d].pc = "closing"]
    /\ UNCHANGED <<coll_debates, coll_agents, coll_messages, coll_interventions, solo>>

\* the closing message of the Moderator
ClosingOf(d) ==
    /\ run[d].pc = "closing"
    /\ StoreMessage(d, "orchestrator", "Moderator", "closing", run[d].round_number,
                    "orchestrator_message")
    /\ run' = [run EXCEPT ![d].pc = "complete"]
    /\ UNCHANGED <<coll_debates, coll_agents, coll_interventions>>

\* update_debate_status(debate_id, "completed", ...)
CompleteOf(d) ==
    /\ run[d].pc = "complete"
    /\ coll_debates' = [coll_debates EXCEPT ![d] = "completed"]
    /\ solo' = [solo EXCEPT ![d].status = "completed"]
    /\ run' = [run EXCEPT ![d].pc = "returned"]
    /\ UNCHANGED <<coll_agents, coll_messages, coll_interventions>>

\* nothing but the two runs takes a step
OnlyTheRuns == UNCHANGED <<request, model_handle, clustering, analysis, orchestrator>>

NextTwoDebates ==
    \/ \E d \in DebateIds : SetupOf(d) /\ OnlyTheRuns
    \/ \E d \in DebateIds : OpeningOf(d) /\ OnlyTheRuns
    \/ \E d \in DebateIds : AgentTurnEmptyOf(d) /\ OnlyTheRuns
    \/ \E d \in DebateIds : AgentTurnSpeaksOf(d) /\ OnlyTheRuns
    \/ \E d \in DebateIds : CheckInterventionOf(d) /\ OnlyTheRuns
    \/ \E d \in DebateIds : NoInterventionNeededOf(d) /\ OnlyTheRuns
    \/ \E d \in DebateIds : RecordInterventionOf(d) /\ OnlyTheRuns
    \/ \E d \in DebateIds : InterventionMessageOf(d) /\ OnlyTheRuns
    \/ \E d \in DebateIds : LoopExitOf(d) /\ OnlyTheRuns
    \/ \E d \in DebateIds : ClosingOf(d) /\ OnlyTheRuns
    \/ \E d \in DebateIds : CompleteOf(d) /\ OnlyTheRuns

SpecTwoDebates == InitModel /\ [][NextTwoDebates]_vars

(***************************************************************************)
(* debate_storage.py: get_debate and routes.py: get_debate_endpoint, the   *)
(* read side of the Debate record.                                         *)
(***************************************************************************)
\* the dictionary get_debate builds from the debates document
GetDebate(doc) ==
    [status |-> doc.status, consensus_score |-> doc.consensus_score]

\* dict.get(key): None when the key is absent
DictGet(dict, key) == IF key \in DOMAIN dict THEN dict[key] ELSE None

\* the status and error fields of the DebateResponse of get_debate_endpoint
GetDebateEndpoint ==
    LET d == GetDebate(debate)
    IN [status |-> d.status,
        consensus_score |-> DictGet(d, "consensus_score"),
        error_message |-> DictGet(d, "error_message")]

(***************************************************************************)
(* clustering.py: cluster_submissions, cluster_from_embeddings and         *)
(* select_optimal_k.  A submission's embedding is a function of its text;  *)
(* what KMeans and silhouette_score compute is chosen among the results    *)
(* they can give.                                                          *)
(***************************************************************************)
K_RANGE == <<2, 3, 4>>
MIN_SUBMISSIONS_FOR_CLUSTERING == 2
MAX_SUBMISSIONS == 1000

Texts == {"a", "b", "c"}
Submissions == UNION {[1 .. n -> Texts] : n \in 0 .. MaxItems}

\* silhouette_score lies in [-1, 1]
Silhouettes == {-1, 0, 1}

\* [k for k in k_range if k <= n_samples]
ValidKRangeInclusive(k_range, n_samples) == SelectSeq(k_range, LAMBDA k : k <= n_samples)

\* [k for k in k_range if k < n_samples]
ValidKRange(k_range, n_samples) == SelectSeq(k_range, LAMBDA k : k < n_samples)

\* KMeans(n_clusters=k).fit_predict: a label below k for every row, equal rows
\* labelled alike
KMeansLabels(texts, k) ==
    {l \in [1 .. Len(texts) -> 0 .. k - 1] :
        \A i, j \in 1 .. Len(texts) : texts[i] = texts[j] => l[i] = l[j]}

DistinctLabels(l) == {l[i] : i \in DOMAIN l}

\* silhouette_score accepts 2 <= number of labels <= n_samples - 1
SilhouetteDefined(l) ==
    /\ Cardinality(DistinctLabels(l)) >= 2
    /\ Cardinality(DistinctLabels(l)) <= Len(l) - 1

RECURSIVE TakeInOrder(_, _)
TakeInOrder(texts, indices) ==
    IF indices = {} THEN <<>>
    ELSE LET first == CHOOSE i \in indices : \A j \in indices : i <= j
         IN <<texts[first]>> \o TakeInOrder(texts, indices \ {first})

\* the grouping with each submission put in front of its group
GroupByLabelPrepending(texts, labels, k) ==
    [c \in 1 .. k |->
        LET members == TakeInOrder(texts, {i \in DOMAIN labels : labels[i] = c - 1})
        IN [i \in 1 .. Len(members) |-> members[Len(members) + 1 - i]]]

\* clusters = [[] for _ in range(k)]; clusters[label].append(submission)
GroupByLabel(texts, labels, k) ==
    [c \in 1 .. k |-> TakeInOrder(texts, {i \in DOMAIN labels : labels[i] = c - 1})]

\* the count check placed after the embedding step
ClusterSubmissionsEmbedsFirst ==
    /\ cl_entry = "cluster_submissions"
    /\ cl_pc = "call"
    /\ \/ Len(cl_texts) < MIN_SUBMISSIONS_FOR_CLUSTERING
       \/ Len(cl_texts) > MAX_SUBMISSIONS
    /\ cl_embedded' = cl_embedded + 1
    /\ cl_pc' = "raised"
    /\ UNCHANGED <<cl_entry, cl_texts, cl_todo, cl_evaluated, cl_best, cl_result,
                   cl_scores>>
    /\ UNCHANGED <<request, model_handle, two_debates, analysis, orchestrator>>

\* cluster_submissions is called and rejects the submission count
ClusterSubmissionsRejects ==
    /\ cl_entry = "cluster_submissions"
    /\ cl_pc = "call"
    /\ \/ Len(cl_texts) < MIN_SUBMISSIONS_FOR_CLUSTERING
       \/ Len(cl_texts) > MAX_SUBMISSIONS
    /\ cl_pc' = "raised"
    /\ UNCHANGED <<cl_entry, cl_texts, cl_todo, cl_evaluated, cl_best, cl_result,
                   cl_embedded, cl_scores>>
    /\ UNCHANGED <<request, model_handle, two_debates, analysis, orchestrator>>

\* cluster_submissions accepts, embeds and calls cluster_from_embeddings, which
\* calls select_optimal_k
ClusterSubmissionsAccepts ==
    /\ cl_entry = "cluster_submissions"
    /\ cl_pc = "call"
    /\ Len(cl_texts) >= MIN_SUBMISSIONS_FOR_CLUSTERING
    /\ Len(cl_texts) <= MAX_SUBMISSIONS
    /\ \E embeddings_given \in BOOLEAN :
         cl_embedded' = IF embeddings_given THEN cl_embedded ELSE cl_embedded + 1
    /\ cl_pc' = "select"
    /\ UNCHANGED <<cl_entry, cl_texts, cl_todo, cl_evaluated, cl_best, cl_result,
                   cl_scores>>
    /\ UNCHANGED <<request, model_handle, two_debates, analysis, orchestrator>>

\* select_optimal_k is called directly
SelectOptimalKCalled ==
    /\ cl_entry = "select_optimal_k"
    /\ cl_pc = "call"
    /\ cl_pc' = "select"
    /\ UNCHANGED <<cl_entry, cl_texts, cl_todo, cl_evaluated, cl_best, cl_result,
                   cl_embedded, cl_scores>>
    /\ UNCHANGED <<request, model_handle, two_debates, analysis, orchestrator>>

\* valid_k_range; the fallback return, or best_k, best_score = valid_k_range[0], -1
SelectOptimalKStart ==
    /\ cl_pc = "select"
    /\ LET valid_k_range == ValidKRange(K_RANGE, Len(cl_texts))
       IN IF valid_k_range = <<>>
          THEN /\ cl_best' = Some(<<Min(2, Len(cl_texts)), 0>>)
               /\ cl_pc' = "selected"
               /\ UNCHANGED cl_todo
          ELSE /\ cl_best' = Some(<<valid_k_range[1], -1>>)
               /\ cl_todo' = valid_k_range
               /\ cl_pc' = "evaluate"
    /\ UNCHANGED <<cl_entry, cl_texts, cl_evaluated, cl_result, cl_embedded, cl_scores>>
    /\ UNCHANGED <<request, model_handle, two_debates, analysis, orchestrator>>

\* the loop iteration keeping the later of two equal scores
EvaluateCandidateKeepsLater ==
    /\ cl_pc = "evaluate"
    /\ cl_todo # <<>>
    /\ LET k == Head(cl_todo)
       IN /\ \E labels \in KMeansLabels(cl_texts, k) :
               /\ SilhouetteDefined(labels)
               /\ \E score \in Silhouettes :
                    /\ cl_best' = IF score >= cl_best[1][2] THEN Some(<<k, score>>)
                                  ELSE cl_best
                    /\ cl_scores' = Append(cl_scores, score)
          /\ cl_evaluated' = Append(cl_evaluated, k)
    /\ cl_todo' = Tail(cl_todo)
    /\ UNCHANGED <<cl_entry, cl_pc, cl_texts, cl_result, cl_embedded>>
    /\ UNCHANGED <<request, model_handle, two_debates, analysis, orchestrator>>

\* one iteration of the loop: KMeans(k), silhouette_score, keep the better
EvaluateCandidate ==
    /\ cl_pc = "evaluate"
    /\ cl_todo # <<>>
    /\ LET k == Head(cl_todo)
       IN /\ \E labels \in KMeansLabels(cl_texts, k) :
               /\ SilhouetteDefined(labels)
               /\ \E score \in Silhouettes :
                    /\ cl_best' = IF score > cl_best[1][2] THEN Some(<<k, score>>)
                                  ELSE cl_best
                    /\ cl_scores' = Append(cl_scores, score)
          /\ cl_evaluated' = Append(cl_evaluated, k)
    /\ cl_todo' = Tail(cl_todo)
    /\ UNCHANGED <<cl_entry, cl_pc, cl_texts, cl_result, cl_embedded>>
    /\ UNCHANGED <<request, model_handle, two_debates, analysis, orchestrator>>

\* one iteration of the loop: the labels are all alike or all different and
\* silhouette_score raises ValueError
SilhouetteRaises ==
    /\ cl_pc = "evaluate"
    /\ cl_todo # <<>>
    /\ \E labels \in KMeansLabels(cl_texts, Head(cl_todo)) : ~SilhouetteDefined(labels)
    /\ cl_evaluated' = Append(cl_evaluated, Head(cl_todo))
    /\ cl_pc' = "raised"
    /\ UNCHANGED <<cl_entry, cl_texts, cl_todo, cl_best, cl_result, cl_embedded,
                   cl_scores>>
    /\ UNCHANGED <<request, model_handle, two_debates, analysis, orchestrator>>

\* return best_k, best_score
SelectOptimalKReturns ==
    /\ cl_pc = "evaluate"
    /\ cl_todo = <<>>
    /\ cl_pc' = "selected"
    /\ UNCHANGED <<cl_entry, cl_texts, cl_todo, cl_evaluated, cl_best, cl_result,
                   cl_embedded, cl_scores>>
    /\ UNCHANGED <<request, model_handle, two_debates, analysis, orchestrator>>

\* cluster_from_embeddings: the final KMeans pass at optimal_k and the grouping
FinalPass ==
    /\ cl_entry = "cluster_submissions"
    /\ cl_pc = "selected"
    /\ \E labels \in KMeansLabels(cl_texts, cl_best[1][1]) :
         cl_result' = Some([clusters |-> GroupByLabel(cl_texts, labels, cl_best[1][1]),
                            num_clusters |-> cl_best[1][1],
                            silhouette |-> cl_best[1][2]])
    /\ cl_pc' = "returned"
    /\ UNCHANGED <<cl_entry, cl_texts, cl_todo, cl_evaluated, cl_best, cl_embedded,
                   cl_scores>>
    /\ UNCHANGED <<request, model_handle, two_debates, analysis, orchestrator>>

\* one process, no debate started yet
NoDebateStarted ==
    /\ DebateCreated
    /\ api_key
    /\ clusters = <<>>
    /\ max_rounds = 1
    /\ max_messages = 1
    /\ NoRequest
    /\ ModelNotLoaded
    /\ TwoDebatesCreated

InitClustering ==
    /\ NoDebateStarted
    /\ NoAnalysis
    /\ cl_entry \in {"cluster_submissions", "select_optimal_k"}
    /\ cl_pc = "call"
    /\ cl_texts \in Submissions
    /\ cl_todo = <<>>
    /\ cl_evaluated = <<>>
    /\ cl_best = None
    /\ cl_result = None
    /\ cl_embedded = 0
    /\ cl_scores = <<>>

NextClustering ==
    \/ ClusterSubmissionsRejects
    \/ ClusterSubmissionsAccepts
    \/ SelectOptimalKCalled
    \/ SelectOptimalKStart
    \/ EvaluateCandidate
    \/ SilhouetteRaises
    \/ SelectOptimalKReturns
    \/ FinalPass

SpecClustering == InitClustering /\ [][NextClustering]_vars

(***************************************************************************)
(* The submission-count check of cluster_submissions over every count up   *)
(* to and beyond MAX_SUBMISSIONS; the texts are all alike and the call is  *)
(* followed up to the point where the check has been passed.               *)
(***************************************************************************)
InitAdmission ==
    /\ NoDebateStarted
    /\ NoAnalysis
    /\ cl_entry = "cluster_submissions"
    /\ cl_pc = "call"
    /\ cl_texts \in {[i \in 1 .. n |-> "a"] : n \in 0 .. MAX_SUBMISSIONS + Oversize}
    /\ cl_todo = <<>>
    /\ cl_evaluated = <<>>
    /\ cl_best = None
    /\ cl_result = None
    /\ cl_embedded = 0
    /\ cl_scores = <<>>

NextAdmission ==
    \/ ClusterSubmissionsRejects
    \/ ClusterSubmissionsAccepts

SpecAdmission == InitAdmission /\ [][NextAdmission]_vars

(***************************************************************************)
(* consensus_analysis.py: the position kept for each speaker by            *)
(* calculate_semantic_alignment and calculate_pairwise_alignment_matrix.   *)
(***************************************************************************)
Speakers(messages) == {messages[i].agent_id : i \in 1 .. Len(messages)}

\* the loop over messages: after the first n messages, for each speaker seen
\* the index of the message whose content and round are kept (0: not seen)
RECURSIVE KeptAfter(_, _)
KeptAfter(messages, n) ==
    IF n = 0 THEN [a \in Speakers(messages) |-> 0]
    ELSE LET kept == KeptAfter(messages, n - 1)
             msg == messages[n]
         IN IF \/ kept[msg.agent_id] = 0
               \/ msg.round_number > messages[kept[msg.agent_id]].round_number
            THEN [kept EXCEPT ![msg.agent_id] = n]
            ELSE kept

AgentPositions(messages) == KeptAfter(messages, Len(messages))

(***************************************************************************)
(* consensus_analysis.py: calculate_consensus_score and its four metrics.  *)
(* A metric is a fraction <<numerator, denominator>>; a reported value is  *)
(* in hundredths of a percentage point, as round(x, 2) leaves it.  A       *)
(* message content is one of a few texts; which keywords occur in a text   *)
(* as substrings is a property of the text.                                *)
(***************************************************************************)
CONSENSUS_SEMANTIC_WEIGHT == 70
CONSENSUS_AGREEMENT_WEIGHT == 20
CONSENSUS_CONVERGENCE_WEIGHT == 5
CONSENSUS_RESOLUTION_WEIGHT == 5

AgreementKeywords ==
    {"agree", "support", "same view", "concur", "endorse", "approve", "align",
     "similar", "shared", "common ground", "together", "united"}
DisagreementKeywords ==
    {"disagree", "oppose", "against", "different", "contrary", "reject",
     "conflict", "dispute", "challenge", "differ", "divergent"}
ResolutionIndicators ==
    {"address", "respond", "resolve", "acknowledge", "understand", "consider",
     "accept", "incorporate", "modify", "refine", "update", "revise"}
ContentionWords == {"but", "however", "although", "challenge", "question"}

AnalysedTexts == {"fine", "i agree", "i disagree", "but why", "i understand"}

\* the keywords of the four lists that occur in content.lower()
KeywordsIn(content) ==
    CASE content = "fine" -> {}
      [] content = "i agree" -> {"agree"}
      [] content = "i disagree" -> {"agree", "disagree"}
      [] content = "but why" -> {"but"}
      [] content = "i understand" -> {"understand"}

\* cosine similarity, in hundredths, that two different texts can have
TextSimilarities == {-50, 0, 80}

RECURSIVE Gcd(_, _)
Gcd(a, b) == IF b = 0 THEN a ELSE Gcd(b, a % b)

\* the same fraction in lowest terms (the denominator is positive)
Lowest(f) ==
    LET g == Gcd(IF f[1] < 0 THEN -f[1] ELSE f[1], f[2])
    IN <<f[1] \div g, f[2] \div g>>

\* round(x, 2) of the percentage of a fraction, in hundredths: to nearest, a
\* tie to the even neighbour
Round2(numerator, denominator) ==
    LET scaled == numerator * 10000
        q == scaled \div denominator
        r == scaled % denominator
    IN IF 2 * r > denominator THEN q + 1
       ELSE IF 2 * r = denominator THEN (IF q % 2 = 0 THEN q ELSE q + 1)
       ELSE q

\* np.mean of the upper triangle of the similarity matrix of the positions:
\* equal texts have cosine similarity 1.0, different texts sim / 100
PairwiseMean(positions, sim) ==
    LET pairs == {p \in SUBSET DOMAIN positions : Cardinality(p) = 2}
        alike == {p \in pairs : \A a, b \in p : positions[a] = positions[b]}
    IN <<100 * Cardinality(alike) + sim * Cardinality(pairs \ alike),
         100 * Cardinality(pairs)>>

CalculateSemanticAlignment(messages, sim) ==
    IF Len(messages) < 2 THEN <<0, 1>>
    ELSE IF Cardinality(Speakers(messages)) < 2 THEN <<0, 1>>
    ELSE Lowest(PairwiseMean([a \in Speakers(messages) |->
                                 messages[AgentPositions(messages)[a]].content], sim))

CalculateAgreementRatio(messages) ==
    LET agreement_count ==
            Cardinality({i \in 1 .. Len(messages) :
                KeywordsIn(messages[i].content) \cap AgreementKeywords # {}})
        disagreement_count ==
            Cardinality({i \in 1 .. Len(messages) :
                KeywordsIn(messages[i].content) \cap DisagreementKeywords # {}})
        total_statements == agreement_count + disagreement_count
    IN IF total_statements = 0 THEN <<1, 2>>
       ELSE Lowest(<<agreement_count, total_statements>>)

\* index of the last message of agent a among the given indices
LastOf(messages, a, indices) ==
    CHOOSE i \in indices :
        /\ messages[i].agent_id = a
        /\ \A j \in indices : messages[j].agent_id = a => j <= i

CalculateConvergence(messages, sim) ==
    IF Len(messages) < 4 THEN <<0, 1>>
    ELSE
      LET max_round == CHOOSE r \in {messages[i].round_number : i \in 1 .. Len(messages)} :
                           \A i \in 1 .. Len(messages) : messages[i].round_number <= r
          mid_point == max_round \div 2
          early == {i \in 1 .. Len(messages) : messages[i].round_number <= mid_point}
          late == {i \in 1 .. Len(messages) : messages[i].round_number > mid_point}
          both == {messages[i].agent_id : i \in early} \cap {messages[i].agent_id : i \in late}
          early_avg == PairwiseMean(
              [a \in both |-> messages[LastOf(messages, a, early)].content], sim)
          late_avg == PairwiseMean(
              [a \in both |-> messages[LastOf(messages, a, late)].content], sim)
      IN IF early = {} \/ late = {} THEN <<0, 1>>
         ELSE IF Cardinality(both) < 2 THEN <<0, 1>>
         ELSE IF late_avg[1] > early_avg[1]
              THEN Lowest(<<Min(2 * (late_avg[1] - early_avg[1]), early_avg[2]),
                            early_avg[2]>>)
              ELSE <<0, 1>>

CalculateResolutionRate(messages) ==
    IF Len(messages) < 2 THEN <<0, 1>>
    ELSE
      LET arguments_addressed ==
              {messages[i - 1].agent_id : i \in {j \in 2 .. Len(messages) :
                  KeywordsIn(messages[j].content) \cap ResolutionIndicators # {}}}
          arguments_raised ==
              {messages[i].agent_id : i \in {j \in 1 .. Len(messages) :
                  KeywordsIn(messages[j].content) \cap ContentionWords # {}}}
      IN IF Cardinality(arguments_raised) = 0 THEN <<1, 1>>
         ELSE Lowest(<<Cardinality(arguments_addressed), Cardinality(arguments_raised)>>)

\* the weighted sum with the semantic weight on the complement of the alignment
ConsensusScoreInverted(semantic, agreement, convergence, resolution) ==
    Lowest(<<CONSENSUS_SEMANTIC_WEIGHT * (semantic[2] - semantic[1])
                 * agreement[2] * convergence[2] * resolution[2]
             + CONSENSUS_AGREEMENT_WEIGHT * agreement[1]
                 * semantic[2] * convergence[2] * resolution[2]
             + CONSENSUS_CONVERGENCE_WEIGHT * convergence[1]
                 * semantic[2] * agreement[2] * resolution[2]
             + CONSENSUS_RESOLUTION_WEIGHT * resolution[1]
                 * semantic[2] * agreement[2] * convergence[2],
             100 * semantic[2] * agreement[2] * convergence[2] * resolution[2]>>)

\* consensus_score: the weighted sum of the four metrics times 100, as a
\* fraction of 100 points
ConsensusScore(semantic, agreement, convergence, resolution) ==
    Lowest(<<CONSENSUS_SEMANTIC_WEIGHT * semantic[1]
                 * agreement[2] * convergence[2] * resolution[2]
             + CONSENSUS_AGREEMENT_WEIGHT * agreement[1]
                 * semantic[2] * convergence[2] * resolution[2]
             + CONSENSUS_CONVERGENCE_WEIGHT * convergence[1]
                 * semantic[2] * agreement[2] * resolution[2]
             + CONSENSUS_RESOLUTION_WEIGHT * resolution[1]
                 * semantic[2] * agreement[2] * convergence[2],
             100 * semantic[2] * agreement[2] * convergence[2] * resolution[2]>>)

\* the dictionary calculate_consensus_score returns (sentiment left out)
ConsensusReport(messages, sim) ==
    LET semantic_alignment == CalculateSemanticAlignment(messages, sim)
        agreement_ratio == CalculateAgreementRatio(messages)
        convergence_score == CalculateConvergence(messages, sim)
        resolution_rate == CalculateResolutionRate(messages)
        consensus_score == ConsensusScore(semantic_alignment, agreement_ratio,
                                          convergence_score, resolution_rate)
    IN [consensus_score |-> Round2(consensus_score[1], consensus_score[2]),
        semantic_alignment |-> Round2(semantic_alignment[1], semantic_alignment[2]),
        agreement_ratio |-> Round2(agreement_ratio[1], agreement_ratio[2]),
        convergence_score |-> Round2(convergence_score[1], convergence_score[2]),
        resolution_rate |-> Round2(resolution_rate[1], resolution_rate[2])]

\* if not messages: every value 0.0
AnalyseNoMessages ==
    /\ an_pc = "call"
    /\ an_messages = <<>>
    /\ an_result' = Some([consensus_score |-> 0, semantic_alignment |-> 0,
                          agreement_ratio |-> 0, convergence_score |-> 0,
                          resolution_rate |-> 0])
    /\ an_pc' = "returned"
    /\ UNCHANGED <<an_messages, request, model_handle, two_debates, clustering, orchestrator>>

\* the four metrics, the weighted sum and the rounded dictionary
AnalyseMessages ==
    /\ an_pc = "call"
    /\ an_messages # <<>>
    /\ \E sim \in TextSimilarities : an_result' = Some(ConsensusReport(an_messages, sim))
    /\ an_pc' = "returned"
    /\ UNCHANGED <<an_messages, request, model_handle, two_debates, clustering, orchestrator>>

AnalysisSpeakers == {"orchestrator", AgentId(0), AgentId(1)}

\* a stored transcript as get_debate_messages returns it: rounds ascending
\* from 1
Transcript(who, what, first_round) ==
    [i \in 1 .. Len(who) |-> [agent_id |-> who[i], content |-> what[i],
                              round_number |-> IF i <= first_round THEN 1 ELSE 2]]

\* the analyser is called on a transcript that is empty or starts with the
\* Moderator's opening
InitAnalysis ==
    /\ NoDebateStarted
    /\ NoClustering
    /\ an_pc = "call"
    /\ \E n \in 0 .. MaxAnalysed :
         \E who \in [1 .. n -> AnalysisSpeakers], what \in [1 .. n -> AnalysedTexts] :
           \E first_round \in Min(1, n) .. n :
             /\ n > 0 => who[1] = "orchestrator"
             /\ an_messages = Transcript(who, what, first_round)
    /\ an_result = None

NextAnalysis ==
    \/ AnalyseNoMessages
    \/ AnalyseMessages

SpecAnalysis == InitAnalysis /\ [][NextAnalysis]_vars

(***************************************************************************)
(* Properties                                                              *)
(***************************************************************************)
Terminal == {"completed", "cancelled"}

IsAgentMessage(m) == m.message_type = "agent_message"

IsInterventionMessage(m) ==
    /\ m.message_type = "orchestrator_message"
    /\ \E t \in InterventionTypes : m.content = InterventionMessage(t)

\* the steps of run_debate that follow a successful setup
AfterSetup ==
    {"opening", "loop", "check", "decide", "intervention_message", "closing",
     "consensus", "summary", "complete", "returned"}

C3_MaxRoundsOnce ==
    (pc = "closing" /\ round_number >= max_rounds /\ message_count < max_messages) =>
        /\ Cardinality({i \in 1 .. Len(db_interventions) :
                          db_interventions[i].intervention_type = "max_rounds"}) = 1
        /\ db_messages[Len(db_messages)].content = InterventionMessage("max_rounds")

\* C4: when the turn loop ends without an exception, having stored a message
\* after the opening, the last stored message is
\* the message of a max_rounds or max_messages intervention that has its
\* Intervention record.
C4_LoopEndsByIntervention ==
    (pc = "closing" /\ Len(db_messages) > 1) =>
        \E t \in {"max_rounds", "max_messages"} :
            /\ db_messages[Len(db_messages)].message_type = "orchestrator_message"
            /\ db_messages[Len(db_messages)].content = InterventionMessage(t)
            /\ db_interventions # <<>>
            /\ db_interventions[Len(db_interventions)].intervention_type = t

\* C5: the condition of each intervention type, and the type the fixed
\* priority order selects
Holds(t, messages, round, maxr, maxm, s) ==
    CASE t = "max_rounds" -> round >= maxr
      [] t = "max_messages" -> Len(messages) >= maxm
      [] t = "repetition" -> s.repetition
      [] t = "off_topic" -> Len(messages) >= 6 /\ s.off_topic
      [] t = "stalemate" ->
            /\ round >= 2
            /\ Cardinality({messages[i].round_number : i \in 1 .. Len(messages)}
                             \cap ((round - 4) .. round)) >= 3
            /\ s.stalemate
      [] t = "ethical" -> messages[Len(messages)].content = "insult"

PriorityOrder ==
    <<"max_rounds", "max_messages", "repetition", "off_topic", "stalemate", "ethical">>

FirstInPriority(messages, round, maxr, maxm, s) ==
    LET candidates ==
            {k \in 1 .. Len(PriorityOrder) :
               /\ Holds(PriorityOrder[k], messages, round, maxr, maxm, s)
               /\ k > 2 => Len(messages) >= 3}
    IN IF candidates = {} THEN "none"
       ELSE PriorityOrder[CHOOSE k \in candidates : \A j \in candidates : k <= j]

\* C5: check_for_intervention returns the first type of the priority order
\* whose condition holds (none below three messages, except for the two
\* ceilings), and no agent turn is followed by more than one intervention.
C5_PriorityOrder ==
    /\ pc = "decide" =>
         intervention = FirstInPriority(db_messages, round_number, max_rounds,
                                        max_messages, sims)
    /\ \A i \in 1 .. Len(db_messages) - 1 :
         ~(IsInterventionMessage(db_messages[i]) /\ IsInterventionMessage(db_messages[i + 1]))
    /\ Len(db_interventions) <=
         Cardinality({i \in 1 .. Len(db_messages) : IsAgentMessage(db_messages[i])})

C5_Witness ==
    /\ pc = "decide"
    /\ intervention = "stalemate"
    /\ sims.stalemate
    /\ Len(db_messages) >= OFF_TOPIC_MIN_MESSAGES
    /\ db_messages[Len(db_messages)].content = "insult"

\* C6: once the status is completed or cancelled the stored messages never
\* change.
C6_MessagesFrozen ==
    [][debate.status \in Terminal => db_messages' = db_messages]_vars

C6_Witness ==
    /\ debate.status = "completed"
    /\ pc = "returned"
    /\ Len(db_messages) >= 4

\* C7: in insertion order the round numbers never decrease, and the transcript
\* sorted by (round number, timestamp) is the insertion order.
C7_RoundsMonotone ==
    /\ \A i, j \in 1 .. Len(db_messages) :
         i < j => db_messages[i].round_number <= db_messages[j].round_number
    /\ GetDebateMessages(db_messages) = db_messages

C7_Witness ==
    /\ Len(db_messages) >= 4
    /\ db_messages[1].round_number < db_messages[Len(db_messages)].round_number
    /\ \E i \in 1 .. Len(db_messages) : IsInterventionMessage(db_messages[i])

\* C8: outside the step between the two inserts, every Intervention record has
\* a Moderator message of type orchestrator_message with the same text.
C8_InterventionPaired ==
    pc # "intervention_message" =>
        \A i \in 1 .. Len(db_interventions) :
            \E j \in 1 .. Len(db_messages) :
                /\ db_messages[j].message_type = "orchestrator_message"
                /\ db_messages[j].agent_name = "Moderator"
                /\ db_messages[j].content = db_interventions[i].message

\* C9: the clusters whose persona was generated
PersonaClusters ==
    {c \in 0 .. Len(clusters) - 1 : \E i \in 1 .. Len(agents) : agents[i].role = Role(c)}

ModeratorAgent ==
    [agent_id |-> "orchestrator", agent_name |-> "Moderator", cluster_id |-> -1]

RegisteredAsClaimed ==
    pc \in AfterSetup =>
        /\ \A c \in PersonaClusters : clusters[c + 1] > 0
        /\ Cardinality(PersonaClusters) = Len(agents)
        /\ db_agents =
             {[agent_id |-> AgentId(c), agent_name |-> Role(c), cluster_id |-> c] :
                 c \in PersonaClusters} \cup {ModeratorAgent}
        /\ Cardinality(db_agents) = Len(agents) + 1

AgentsUnchangedAfterSetup ==
    pc \in (AfterSetup \cup {"except", "raised"}) => db_agents' = db_agents

PersonaFailureSkips ==
    PersonaFails => (pc' = "create_agents" /\ debate'.status = "running")

NoAgentsNoDebate ==
    /\ agents = <<>> => pc \notin AfterSetup
    /\ (pc = "raised" /\ agents = <<>>) =>
            /\ debate.status = "cancelled"
            /\ debate.error_message # None
            /\ Len(debate.error_message[1]) > 0
            /\ ModeratorAgent \notin db_agents
            /\ db_messages = <<>>

C11_EmptyTurnKeepsRound ==
    [][AgentTurnEmpty =>
         /\ db_messages' = db_messages
         /\ debate' = debate
         /\ pc' = "loop"
         /\ current_agent_idx' = (current_agent_idx + 1) % Len(agents)
         /\ round_number' = round_number]_vars

\* C12: a turn whose generation call raises is skipped: no exception reaches the
\* handler of run_debate, the loop goes on with the next speaker and the debate
\* stays running.
C12_FailedGenerationSkipped ==
    [][GenerationRaises =>
         /\ exc' = None
         /\ pc' = "loop"
         /\ current_agent_idx' = (current_agent_idx + 1) % Len(agents)
         /\ debate'.status = "running"]_vars

ClosingIsLast ==
    LET transcript == GetDebateMessages(db_messages)
    IN /\ transcript # <<>>
       /\ transcript[Len(transcript)].content = "closing"
       /\ transcript[Len(transcript)].agent_name = "Moderator"
       /\ transcript[Len(transcript)].message_type = "orchestrator_message"

\* C13: the closing message precedes the stored Consensus Analysis, which
\* precedes the stored Summary, which precedes the completed status; a
\* completed debate has all of them, the closing message last in its transcript
\* and the analysis' composite score as its non-null consensus score.
C13_CompletionOrder ==
    /\ db_consensus # None => ClosingIsLast
    /\ db_summary # None => db_consensus # None
    /\ debate.status = "completed" =>
         /\ db_summary # None
         /\ debate.consensus_score # None
         /\ debate.consensus_score = db_consensus

C13_Witness ==
    /\ debate.status = "completed"
    /\ debate.consensus_score = Some(0)
    /\ db_interventions # <<>>
    /\ ClosingIsLast

\* C14: once the debate is completed and no get_consensus request is in
\* flight, the stored Consensus Analysis is the one the orchestrator computed
\* over the final transcript, and its composite score is the consensus score
\* of the Debate record.
C14_NoConsensusRace ==
    (debate.status = "completed" /\ req_pc \in {"idle", "done"}) =>
        /\ db_consensus = consensus_data
        /\ db_consensus = debate.consensus_score

\* C15: the constructor of the embedding model runs at most once, and all
\* callers of get_model are handed the same instance.
C15_ModelLoadedOnce ==
    /\ constructed <= 1
    /\ \A c, d \in Callers :
         (gm_pc[c] = "returned" /\ gm_pc[d] = "returned") => gm_result[c] = gm_result[d]

Untimed(docs) ==
    [i \in 1 .. Len(docs) |-> [f \in DOMAIN docs[i] \ {"timestamp"} |-> docs[i][f]]]

\* C16: with two runs interleaved, what is stored and decided under each
\* debate id is what the same run stores and decides alone: its agents, its
\* transcript as get_debate_messages returns it, its interventions, the result
\* of check_for_intervention and its status.
C16_NoInterference ==
    \A d \in DebateIds :
        /\ {a.doc : a \in {x \in coll_agents : x.debate_id = d}} = solo[d].agents
        /\ Untimed(StoredMessages(d)) = Untimed(GetDebateMessages(solo[d].messages))
        /\ Untimed(FindByDebateId(coll_interventions, d)) = Untimed(solo[d].interventions)
        /\ run[d].intervention = solo[d].intervention
        /\ coll_debates[d] = solo[d].status

C16_Witness ==
    /\ \A d \in DebateIds : coll_debates[d] = "completed"
    /\ \E i, j, k \in 1 .. Len(coll_messages) :
         /\ i < j /\ j < k
         /\ coll_messages[i].debate_id = "d1"
         /\ coll_messages[j].debate_id = "d2"
         /\ coll_messages[k].debate_id = "d1"
    /\ \E i \in 1 .. Len(coll_interventions) :
         /\ coll_interventions[i].debate_id = "d2"
         /\ coll_interventions[i].doc.intervention_type = "max_rounds"
    /\ Len(FindByDebateId(coll_messages, "d1")) # Len(FindByDebateId(coll_messages, "d2"))

\* C17: for a cancelled debate the debate-detail response carries the error
\* message recorded on the Debate record.
C17_ErrorMessageReturned ==
    debate.status = "cancelled" =>
        /\ GetDebateEndpoint.status = "cancelled"
        /\ GetDebateEndpoint.error_message = debate.error_message

\* C18: for 2 <= n < max(K_RANGE) items, the group count cluster_submissions
\* returns is at most n - 1.
C18_GroupCountBelowN ==
    (/\ cl_pc = "returned"
     /\ Len(cl_texts) >= 2
     /\ Len(cl_texts) < K_RANGE[Len(K_RANGE)]) =>
        cl_result[1].num_clusters <= Len(cl_texts) - 1

\* position in texts of the j-th member of a set of positions
NthOf(indices, j) == CHOOSE i \in indices : Cardinality({m \in indices : m < i}) = j - 1

\* groups is texts split by some assignment of every position to one group,
\* each group listing its positions in ascending order
IsOrderedPartition(groups, texts) ==
    \E assigned \in [1 .. Len(texts) -> 1 .. Len(groups)] :
        \A c \in 1 .. Len(groups) :
            LET members == {i \in 1 .. Len(texts) : assigned[i] = c}
            IN /\ Len(groups[c]) = Cardinality(members)
               /\ \A j \in 1 .. Len(groups[c]) : groups[c][j] = texts[NthOf(members, j)]

\* C19: the groups cluster_submissions returns are as many as the returned k,
\* hold every input occurrence exactly once, and keep the input order inside
\* each group.
C19_GroupsPartitionInput ==
    cl_pc = "returned" =>
        /\ Len(cl_result[1].clusters) = cl_result[1].num_clusters
        /\ IsOrderedPartition(cl_result[1].clusters, cl_texts)

C19_Witness ==
    /\ cl_pc = "returned"
    /\ Len(cl_texts) = MaxItems
    /\ cl_result[1].num_clusters = 3
    /\ \E c \in 1 .. 3 :
         /\ Len(cl_result[1].clusters[c]) >= 2
         /\ cl_result[1].clusters[c][1] # cl_result[1].clusters[c][2]

InKRange(k) == \E i \in 1 .. Len(K_RANGE) : K_RANGE[i] = k

\* C20: select_optimal_k evaluates only candidates of K_RANGE below the number
\* of embeddings and returns one of those it evaluated; with no such candidate
\* it returns min(2, n) with quality 0 and evaluates nothing.
C20_OnlyValidCandidates ==
    /\ \A i \in 1 .. Len(cl_evaluated) :
         InKRange(cl_evaluated[i]) /\ cl_evaluated[i] < Len(cl_texts)
    /\ cl_pc \in {"selected", "returned"} =>
         IF \E i \in 1 .. Len(K_RANGE) : K_RANGE[i] < Len(cl_texts)
         THEN \E i \in 1 .. Len(cl_evaluated) : cl_evaluated[i] = cl_best[1][1]
         ELSE /\ cl_best = Some(<<Min(2, Len(cl_texts)), 0>>)
              /\ cl_evaluated = <<>>

C20_Witness ==
    /\ cl_entry = "select_optimal_k"
    /\ cl_pc = "selected"
    /\ Len(cl_texts) = 4
    /\ cl_evaluated = <<2, 3>>
    /\ cl_best = Some(<<3, 1>>)

\* C21: cluster_submissions raises, with no embedding computed and no
\* clustering pass run, once it has looked at a submission count below
\* MIN_SUBMISSIONS_FOR_CLUSTERING or above MAX_SUBMISSIONS, and does not raise
\* on the count for any count in between.
C21_CountChecked ==
    (cl_entry = "cluster_submissions" /\ cl_pc # "call") =>
        IF Len(cl_texts) < 2 \/ Len(cl_texts) > MAX_SUBMISSIONS
        THEN /\ cl_pc = "raised"
             /\ cl_embedded = 0
             /\ cl_evaluated = <<>>
             /\ cl_best = None
             /\ cl_result = None
        ELSE cl_pc = "raised" => cl_evaluated # <<>>

C21_Witness ==
    /\ cl_entry = "cluster_submissions"
    /\ cl_pc = "raised"
    /\ Len(cl_texts) = MAX_SUBMISSIONS + 1

\* position of the first maximal element of a non-empty sequence of numbers
FirstMaximum(scores) ==
    CHOOSE i \in 1 .. Len(scores) :
        /\ \A j \in 1 .. Len(scores) : scores[j] <= scores[i]
        /\ \A j \in 1 .. i - 1 : scores[j] < scores[i]

\* C29: when candidates were evaluated, select_optimal_k has evaluated every
\* k of K_RANGE below n and returns the one with the maximal silhouette score,
\* the first in range order among equals, together with that score.
C29_FirstMaximalCandidate ==
    (cl_pc \in {"selected", "returned"} /\ cl_evaluated # <<>>) =>
        /\ cl_evaluated = ValidKRange(K_RANGE, Len(cl_texts))
        /\ Len(cl_scores) = Len(cl_evaluated)
        /\ cl_best = Some(<<cl_evaluated[FirstMaximum(cl_scores)],
                            cl_scores[FirstMaximum(cl_scores)]>>)

C29_Witness ==
    /\ cl_pc = "selected"
    /\ cl_evaluated = <<2, 3, 4>>
    /\ cl_scores = <<0, 1, 1>>
    /\ cl_best = Some(<<3, 1>>)

\* index of the last message of a speaker in a transcript
LastMessageOf(messages, a) ==
    CHOOSE i \in 1 .. Len(messages) :
        /\ messages[i].agent_id = a
        /\ \A j \in i + 1 .. Len(messages) : messages[j].agent_id # a

\* C30: for every speaker of the stored transcript, Moderator included, the
\* position the alignment computations keep is the speaker's last message in
\* transcript order.
C30_PositionIsLastMessage ==
    LET messages == GetDebateMessages(db_messages)
    IN \A a \in Speakers(messages) :
         AgentPositions(messages)[a] = LastMessageOf(messages, a)

\* C22: for a transcript, the empty one included, in which no message holds an
\* agreement or disagreement keyword, the reported agreement ratio is 50.00.
C22_NeutralAgreementRatio ==
    (/\ an_pc = "returned"
     /\ \A i \in 1 .. Len(an_messages) :
          KeywordsIn(an_messages[i].content)
              \cap (AgreementKeywords \cup DisagreementKeywords) = {}) =>
        an_result[1].agreement_ratio = 5000

\* C23: for a transcript of any length, 0 and 1 included, in which no message
\* holds a contention marker, the reported resolution rate is 100.00.
C23_NoContentionFullyResolved ==
    (/\ an_pc = "returned"
     /\ \A i \in 1 .. Len(an_messages) :
          KeywordsIn(an_messages[i].content) \cap ContentionWords = {}) =>
        an_result[1].resolution_rate = 10000

\* C24: each of the four reported metrics and the composite score lies between
\* 0 and 100.00.
C24_MetricsInRange ==
    an_pc = "returned" =>
        /\ an_result[1].semantic_alignment \in 0 .. 10000
        /\ an_result[1].agreement_ratio \in 0 .. 10000
        /\ an_result[1].convergence_score \in 0 .. 10000
        /\ an_result[1].resolution_rate \in 0 .. 10000
        /\ an_result[1].consensus_score \in 0 .. 10000

FractionLeq(f, g) == f[1] * g[2] <= g[1] * f[2]

\* values the semantic alignment can take
AlignmentValues == {<<-1, 2>>, <<0, 1>>, <<4, 5>>, <<1, 1>>}

\* C25: the weights are positive and sum to 1.0 (100 hundredths), the composite
\* score is the sum of the four metrics each times its weight, and with the
\* other three metrics as computed from the transcript it does not decrease
\* when the semantic alignment increases.
C25_WeightedSumMonotone ==
    /\ CONSENSUS_SEMANTIC_WEIGHT > 0
    /\ CONSENSUS_AGREEMENT_WEIGHT > 0
    /\ CONSENSUS_CONVERGENCE_WEIGHT > 0
    /\ CONSENSUS_RESOLUTION_WEIGHT > 0
    /\ CONSENSUS_SEMANTIC_WEIGHT + CONSENSUS_AGREEMENT_WEIGHT
         + CONSENSUS_CONVERGENCE_WEIGHT + CONSENSUS_RESOLUTION_WEIGHT = 100
    /\ ConsensusScore(<<1, 1>>, <<0, 1>>, <<0, 1>>, <<0, 1>>)
         = Lowest(<<CONSENSUS_SEMANTIC_WEIGHT, 100>>)
    /\ ConsensusScore(<<0, 1>>, <<1, 1>>, <<0, 1>>, <<0, 1>>)
         = Lowest(<<CONSENSUS_AGREEMENT_WEIGHT, 100>>)
    /\ ConsensusScore(<<0, 1>>, <<0, 1>>, <<1, 1>>, <<0, 1>>)
         = Lowest(<<CONSENSUS_CONVERGENCE_WEIGHT, 100>>)
    /\ ConsensusScore(<<0, 1>>, <<0, 1>>, <<0, 1>>, <<1, 1>>)
         = Lowest(<<CONSENSUS_RESOLUTION_WEIGHT, 100>>)
    /\ (an_pc = "returned" /\ an_messages # <<>>) =>
         \A sim \in TextSimilarities :
           LET agreement == CalculateAgreementRatio(an_messages)
               convergence == CalculateConvergence(an_messages, sim)
               resolution == CalculateResolutionRate(an_messages)
           IN \A lower, higher \in AlignmentValues :
                FractionLeq(lower, higher) =>
                  LET before == ConsensusScore(lower, agreement, convergence, resolution)
                      after == ConsensusScore(higher, agreement, convergence, resolution)
                  IN /\ FractionLeq(before, after)
                     /\ Round2(before[1], before[2]) <= Round2(after[1], after[2])

C25_Witness ==
    /\ an_pc = "returned"
    /\ Len(an_messages) = MaxAnalysed
    /\ an_result[1].semantic_alignment = 8000
    /\ an_result[1].agreement_ratio = 5000
    /\ an_result[1].convergence_score = 0
    /\ an_result[1].resolution_rate = 10000
    /\ an_result[1].consensus_score = 7100

ClosingEmitted == \E i \in 1 .. Len(db_messages) : db_messages[i].content = "closing"

\* C26: the turn loop begins at most max_rounds * len(agents) iterations, and,
\* unless a call raises, the run gets past the loop and emits the closing
\* message.
C26_LoopTerminates ==
    /\ [](turns <= max_rounds * Len(agents))
    /\ <>(exc # None \/ ClosingEmitted)

C26_Witness ==
    /\ ClosingEmitted
    /\ exc = None
    /\ Len(agents) = 2
    /\ turns = max_rounds * Len(agents)
    /\ turns > Len(db_messages)

\* speaker and round of the turn after `done` completed turns
OnTurn(done) ==
    /\ current_agent_idx = done % Len(agents)
    /\ round_number = 1 + done \div Len(agents)

\* the list index an agent_message was stored under
SpeakerIndex(message) ==
    CHOOSE k \in 0 .. MaxClusters : message.agent_id = AgentId(k)

AgentMessages == SelectSeq(db_messages, LAMBDA m : m.message_type = "agent_message")

\* C27: turns go round-robin through the agent list from the first agent, the
\* round number is one more than the number of completed passes through the
\* list, and the agent_messages of one round are stored in agent-list order,
\* at most one per agent.
C27_RoundRobin ==
    /\ pc = "loop" => OnTurn(turns)
    /\ pc \in {"check", "decide", "intervention_message"} => turns > 0 /\ OnTurn(turns - 1)
    /\ (pc \in {"closing", "consensus", "summary", "complete", "returned", "except"}
           /\ agents # <<>> /\ round_number >= 1) =>
         OnTurn(turns) \/ (turns > 0 /\ OnTurn(turns - 1))
    /\ \A i, j \in 1 .. Len(AgentMessages) :
         (i < j /\ AgentMessages[i].round_number = AgentMessages[j].round_number) =>
             SpeakerIndex(AgentMessages[i]) < SpeakerIndex(AgentMessages[j])
    /\ \A i \in 1 .. Len(AgentMessages) :
         AgentMessages[i].agent_name = agents[SpeakerIndex(AgentMessages[i]) + 1].role

C27_Witness ==
    /\ Len(agents) = 2
    /\ Len(AgentMessages) = 3
    /\ AgentMessages[1].agent_id = AgentId(0) /\ AgentMessages[1].round_number = 1
    /\ AgentMessages[2].agent_id = AgentId(1) /\ AgentMessages[2].round_number = 1
    /\ AgentMessages[3].agent_id = AgentId(0) /\ AgentMessages[3].round_number = 2
    /\ pc = "loop"
    /\ turns = 3

\* the debate_history entry of a stored message
HistoryOf(message) ==
    IF message.message_type = "agent_message"
    THEN HistoryEntry("user", message.agent_name, message.content)
    ELSE IF message.content = "opening"
    THEN HistoryEntry("assistant", None, "opening")
    ELSE HistoryEntry("assistant", "Moderator", message.content)

\* the stored messages in emission order without the closing message
EmittedBeforeClosing == SelectSeq(db_messages, LAMBDA m : m.content # "closing")

\* C28: debate_history holds, in emission order, the opening, every non-empty
\* agent utterance and every intervention message; the conversation of every
\* generation call is the speaking agent's persona followed by the last
\* min(DEBATE_CONTEXT_MESSAGE_LIMIT, h) entries of the history, the last of
\* them being the turn emitted immediately before.
C28_RollingContext ==
    /\ [](debate_history =
            [i \in 1 .. Len(EmittedBeforeClosing) |-> HistoryOf(EmittedBeforeClosing[i])])
    /\ [][turns' = turns + 1 =>
            LET h == Len(debate_history)
                window == Min(DEBATE_CONTEXT_MESSAGE_LIMIT, h)
            IN /\ h >= 1
               /\ Len(conversation') = 1 + window
               /\ conversation'[1] =
                    [role |-> "system",
                     content |-> <<"persona", agents[current_agent_idx + 1].role>>]
               /\ \A k \in 1 .. window : conversation'[1 + k] = debate_history[h - window + k]
               /\ conversation'[1 + window] = HistoryOf(db_messages[Len(db_messages)])]_vars

C28_Witness ==
    /\ Len(conversation) = 1 + DEBATE_CONTEXT_MESSAGE_LIMIT
    /\ conversation[4].content[1] = "Moderator"
    /\ conversation[2].role = "user"
    /\ Len(debate_history) > DEBATE_CONTEXT_MESSAGE_LIMIT

\* the evaluation gets as far as the stalemate check: no check before it returned
StalemateCheckReached(messages, round, maxr, maxm, s) ==
    /\ ReachesEmbedding(messages, round, maxr, maxm)
    /\ ~(Len(RecentMessages(messages)) >= MIN_MESSAGES_FOR_INTERVENTION /\ s.repetition)
    /\ ~(Len(messages) >= OFF_TOPIC_MIN_MESSAGES /\ s.off_topic)

\* C31: whenever the evaluation reaches the stalemate check with the round
\* number at or above the stalemate threshold, and the mean pairwise similarity
\* of the per-round concatenations of the trailing window (defined as soon as
\* the window holds two rounds with messages) exceeds the stalemate similarity
\* threshold, the result is a stalemate intervention.  s.stalemate stands for
\* that fact of the transcript, whether or not the code measures it.
C31_StalemateReturned ==
    pc = "check" =>
      LET messages == GetDebateMessages(db_messages)
      IN \A s \in Similarities :
           ( /\ StalemateCheckReached(messages, round_number, max_rounds, max_messages, s)
             /\ round_number >= INTERVENTION_STALEMATE_THRESHOLD
             /\ Cardinality(RoundsChecked(messages, round_number)) >= 2
             /\ s.stalemate )
           => CheckForIntervention(messages, round_number, max_rounds, max_messages, s)
                = "stalemate"

(***************************************************************************)
(* run_debate with the default configuration of config.py.                 *)
(***************************************************************************)
DEFAULT_MAX_ROUNDS == 3
DEFAULT_MAX_MESSAGES == 30

\* create_debate followed by run_debate(..., max_rounds=DEFAULT_MAX_ROUNDS,
\* max_messages=DEFAULT_MAX_MESSAGES)
InitDefault ==
    /\ api_key \in BOOLEAN
    /\ clusters \in ClusterLists
    /\ max_rounds = DEFAULT_MAX_ROUNDS
    /\ max_messages = DEFAULT_MAX_MESSAGES
    /\ debate = NewDebate
    /\ db_agents = {}
    /\ db_messages = <<>>
    /\ db_interventions = <<>>
    /\ db_consensus = None
    /\ db_summary = None
    /\ clock = 0
    /\ pc = "start"
    /\ cluster_idx = 0
    /\ agents = <<>>
    /\ round_number = 0
    /\ message_count = 0
    /\ current_agent_idx = 0
    /\ intervention = NoIntervention
    /\ sims = NoSims
    /\ consensus_data = None
    /\ exc = None
    /\ gen_calls = 0
    /\ turns = 0
    /\ debate_history = <<>>
    /\ conversation = <<>>
    /\ NoRequest
    /\ ModelNotLoaded
    /\ TwoDebatesCreated
    /\ NoClustering
    /\ NoAnalysis

SpecDefault == InitDefault /\ [][Next]_vars

\* The turn loop of run_debate from a loop head, as a function of the locals:
\* whether some choice of generation outcomes (empty, or an utterance) and of
\* similarity values leads to a check_for_intervention that returns stalemate.
\* messages holds the content and round of the stored messages, in the order
\* get_debate_messages returns them (rounds never decrease).
RECURSIVE StalemateWithin(_, _, _, _, _, _)
StalemateWithin(n_agents, messages, round, idx, maxr, maxm) ==
    LET next_idx == (idx + 1) % n_agents
        next_round == IF next_idx = 0 THEN round + 1 ELSE round
    IN IF ~(round <= maxr /\ Len(messages) < maxm) THEN FALSE
       ELSE \/ StalemateWithin(n_agents, messages, next_round, next_idx, maxr, maxm)
            \/ \E content \in Contents :
                 LET stored == Append(messages,
                                      [content |-> content, round_number |-> round])
                     results ==
                         {CheckForIntervention(stored, round, maxr, maxm, s) :
                            s \in {t \in Similarities :
                                     ComparisonsMade(stored, round, maxr, maxm, t)}}
                 IN \/ "stalemate" \in results
                    \/ /\ NoIntervention \in results
                       /\ StalemateWithin(n_agents, stored, next_round, next_idx, maxr, maxm)
                    \/ \E type \in results :
                         /\ type # NoIntervention
                         /\ ~EndsDebate(type)
                         /\ StalemateWithin(
                                n_agents,
                                Append(stored, [content |-> InterventionMessage(type),
                                                round_number |-> round]),
                                next_round, next_idx, maxr, maxm)

\* the stalemate intervention was recorded
StalemateEmitted ==
    \E i \in 1 .. Len(db_interventions) :
        db_interventions[i].intervention_type = "stalemate"

\* no run with the default configuration records a stalemate intervention
StalemateNeverEmitted == ~StalemateEmitted /\ intervention # "stalemate"

\* C32: with the default configuration (round ceiling 3, message ceiling 30,
\* stalemate threshold 2) some run of run_debate emits a stalemate
\* intervention: for some number of agents, some choice of generation outcomes
\* and similarity values takes the turn loop, entered after the opening
\* message in round 1 with the first agent, to a stalemate result.
C32_StalemateReachable ==
    pc = "start" =>
      \E n_agents \in 1 .. MaxClusters :
          StalemateWithin(n_agents, <<[content |-> "opening", round_number |-> 1]>>,
                          1, 0, max_rounds, max_messages)

\* C33: every agent_message of the transcript carries the id of an agent
\* registered for the debate, and that registered agent is the one built from
\* the persona that produced the utterance (the role the message is stored
\* under), also when an earlier cluster was skipped.
C33_MessagesByRegisteredAgents ==
    \A i \in 1 .. Len(db_messages) :
        db_messages[i].message_type = "agent_message" =>
            \E a \in db_agents :
                /\ a.agent_id = db_messages[i].agent_id
                /\ a.agent_name = db_messages[i].agent_name

\* C34: the messages the turn loop has stored (the opening message, agent
\* messages and intervention messages, the closing message not counted) never
\* number more than max_messages.
C34_MessageCeilingKept ==
    Len(EmittedBeforeClosing) <= max_messages

\* C35: no stored message of the debate, the closing message included, carries
\* a round number above max_rounds.
C35_RoundCeilingKept ==
    \A i \in 1 .. Len(db_messages) : db_messages[i].round_number <= max_rounds

\* C36: in a completed debate in which no generation was empty (every turn
\* that began stored an agent_message) and the message ceiling was not
\* reached, every agent of the debate other than the Moderator has at least
\* one agent_message in the transcript.
C36_EveryAgentSpeaks ==
    ( /\ debate.status = "completed"
      /\ turns = Len(AgentMessages)
      /\ message_count < max_messages )
    => \A k \in 1 .. Len(agents) :
         \E i \in 1 .. Len(AgentMessages) : AgentMessages[i].agent_name = agents[k].role

\* C38: the Debate record carries a consensus score only when its status is
\* completed; a pending, running or cancelled debate has none, also when the
\* run failed after the Consensus Analysis was computed and stored.
C38_ScoreOnlyWhenCompleted ==
    debate.consensus_score # None => debate.status = "completed"

\* the summary generation failed after the analysis was stored
C38_Witness ==
    /\ pc = "raised"
    /\ debate.status = "cancelled"
    /\ db_consensus # None
    /\ debate.consensus_score = None

\* the words a text consists of
WordsOf(content) ==
    CASE content = "fine" -> {"fine"}
      [] content = "i agree" -> {"i", "agree"}
      [] content = "i disagree" -> {"i", "disagree"}
      [] content = "but why" -> {"but", "why"}
      [] content = "i understand" -> {"i", "understand"}

\* the only terms of the two keyword lists among the words of the text are
\* disagreement terms
OnlyDisagreementTerm(content) ==
    LET terms == WordsOf(content) \cap (AgreementKeywords \cup DisagreementKeywords)
    IN terms # {} /\ terms \subseteq DisagreementKeywords

\* C37: a message whose only term from the two keyword lists is a disagreement
\* term counts as one disagreement and no agreement, so a transcript made of
\* such messages only has agreement ratio 0.
C37_DisagreementOnlyRatioZero ==
    ( /\ an_pc = "returned"
      /\ an_messages # <<>>
      /\ \A i \in 1 .. Len(an_messages) : OnlyDisagreementTerm(an_messages[i].content) )
    => an_result[1].agreement_ratio = 0

====
